---- MODULE Spec2Model ----
(***************************************************************************)
(* A state-machine model of Tiny-AI-API: the session store of              *)
(* TinyAiInstance (src/src/TinyAiInstance.mjs), its model catalog, and the  *)
(* streaming reader of the Google adapter (src/src/services/Google.mjs).   *)
(*                                                                         *)
(* JavaScript values are tagged records [type |-> ..., val |-> ...], so     *)
(* that typeof, === and truthiness are computed as the code computes them.  *)
(* A session object is a function from its present keys to their values;   *)
(* a key that is not in the domain reads as undefined.                      *)
(***************************************************************************)
EXTENDS Integers, Sequences, FiniteSets, TLC

VARIABLES
  isSingle,         \* this._isSingle: the instance was constructed for one session
  history,          \* this.history: session id -> session object
  selectedHistory,  \* this.#_selectedHistory
  sysEventsUsed,    \* this.#sysEventsUsed
  emitted,          \* events the last call delivered to the public emitter
  sysEmitted,       \* events the last call delivered to the internal emitter
  lastCall,         \* the name of the last call
  ret,              \* what the last call returned (Thrown when it threw)
  input,            \* the arguments of the last call, kept for buildContents only
  issued,           \* per session, the identifiers addData has returned so far
  observed,         \* the store as a listener reads it while the last call's events
                    \* are delivered (Undefined when none was)
  models,           \* this.models: the model catalog
  pc,               \* streamingResponse: position of the reader loop
  countData,        \* streamingResponse: reads completed
  streamCache,      \* streamingResponse: per (content, part) accumulated text
  streamResult,     \* streamingResponse: last result object seen
  received,         \* the chunks the transport has delivered, in arrival order
  notified,         \* every argument streamingCallback has been called with
  outcome,          \* what the generation promise settled with
  settledAt,        \* how many notifications had been delivered when it settled
  flights           \* the generation requests that run side by side, each with its reader

storeVars == <<isSingle, history, selectedHistory, sysEventsUsed, emitted, sysEmitted,
               lastCall, ret, input, issued, observed>>
streamVars == <<pc, countData, streamCache, streamResult, received, notified, outcome,
                settledAt>>
vars == <<isSingle, history, selectedHistory, sysEventsUsed, emitted, sysEmitted,
          lastCall, ret, input, issued, observed, models,
          pc, countData, streamCache, streamResult, received, notified, outcome,
          settledAt, flights>>

----------------------------------------------------------------------------
(* JavaScript values *)

Undefined == [type |-> "undefined"]
Null == [type |-> "null"]
Num(n) == [type |-> "number", val |-> n]
Str(s) == [type |-> "string", val |-> s]
Bool(b) == [type |-> "boolean", val |-> b]
Obj(r) == [type |-> "object", val |-> r]
Arr(s) == [type |-> "array", val |-> s]

\* the outcome of a call that threw
Thrown == [type |-> "throw"]
\* throw new Error(message)
Error(message) == [type |-> "throw", message |-> message]

\* JavaScript truthiness, as used by `if (x)` and `x && y`
Truthy(v) ==
  CASE v.type \in {"undefined", "null"} -> FALSE
    [] v.type = "number" -> v.val # 0
    [] v.type = "string" -> v.val # ""
    [] v.type = "boolean" -> v.val
    [] OTHER -> TRUE

\* tiny-essentials objType: the lower-case semantic type name of a value
objType(v) == v.type

\* tiny-essentials isJsonObject: a plain object
isJsonObject(v) == v.type = "object"

\* object-hash: a digest that depends on the structure of the value only
objHash(v) == [type |-> "string", digest |-> v]

\* {}
EmptyMap == [x \in {} |-> x]

\* obj[k], undefined when the key is absent
Get(obj, k) == IF k \in DOMAIN obj THEN obj[k] ELSE Undefined

\* obj[k] = v
Put(obj, k, v) == [x \in (DOMAIN obj) \cup {k} |-> IF x = k THEN v ELSE obj[x]]

\* delete obj[k]
Del(obj, k) == [x \in (DOMAIN obj) \ {k} |-> obj[x]]

\* array[index] for a JavaScript (0-based) index, undefined out of range
At(seq, index) == IF index \in 0..(Len(seq) - 1) THEN seq[index + 1] ELSE Undefined

\* array.splice(index, 1) for index >= 0: nothing is removed past the end
Splice1(seq, index) ==
  IF index < Len(seq)
  THEN SubSeq(seq, 1, index) \o SubSeq(seq, index + 2, Len(seq))
  ELSE seq

\* array[index] = v for index >= 0: past the end the array grows, with holes
SetAt(seq, index, v) ==
  [k \in 1..(IF index + 1 > Len(seq) THEN index + 1 ELSE Len(seq)) |->
     IF k = index + 1 THEN v ELSE IF k <= Len(seq) THEN seq[k] ELSE Undefined]

RECURSIVE IndexOfFrom(_, _, _)
IndexOfFrom(seq, v, k) ==
  IF k > Len(seq) THEN -1
  ELSE IF seq[k] = v THEN k - 1
  ELSE IndexOfFrom(seq, v, k + 1)

\* array.indexOf(v)
IndexOf(seq, v) == IndexOfFrom(seq, v, 1)

----------------------------------------------------------------------------
(* Events *)

Ev(name, args) == [event |-> name, args |-> args]

\* an emitter whose listeners run before the call has changed the store
EmitBeforeChange(evs) ==
  /\ emitted' = evs
  /\ sysEmitted' = IF sysEventsUsed THEN evs ELSE <<>>
  /\ observed' = IF evs = <<>> THEN Undefined
                 ELSE [history |-> history, selectedHistory |-> selectedHistory]

\* #emit: the public emitter always, the internal one once it was handed out.
\* Listeners run inside emit; every handler emits after its last assignment, so
\* they read the store the call leaves.
Emit(evs) ==
  /\ emitted' = evs
  /\ sysEmitted' = IF sysEventsUsed THEN evs ELSE <<>>
  /\ observed' = IF evs = <<>> THEN Undefined
                 ELSE [history |-> history', selectedHistory |-> selectedHistory']

\* a public emit that goes through the store's own #emit
emitToBoth(event, args, heard) ==
  /\ lastCall' = "emit"
  /\ ret' = Bool(heard)
  /\ input' = Undefined
  /\ emitted' = <<Ev(event, args)>>
  /\ sysEmitted' = IF sysEventsUsed THEN <<Ev(event, args)>> ELSE <<>>
  /\ observed' = [history |-> history, selectedHistory |-> selectedHistory]
  /\ UNCHANGED <<history, selectedHistory, sysEventsUsed, issued>>

\* the public emit: this.#events.emit(event, ...args), which returns whether
\* the event had listeners (heard); the internal emitter is not called
emit(event, args, heard) ==
  /\ lastCall' = "emit"
  /\ ret' = Bool(heard)
  /\ input' = Undefined
  /\ emitted' = <<Ev(event, args)>>
  /\ sysEmitted' = <<>>
  /\ observed' = [history |-> history, selectedHistory |-> selectedHistory]
  /\ UNCHANGED <<history, selectedHistory, sysEventsUsed, issued>>

\* a call is recorded with its name and its result
Record(op, result) ==
  /\ lastCall' = op
  /\ ret' = result
  /\ input' = Undefined

----------------------------------------------------------------------------
(* Session store: reads *)

\* a getId that takes the id it is given in either mode
getIdAnyMode(id) ==
  LET result == IF Truthy(id) THEN id ELSE selectedHistory
  IN IF result.type = "string" THEN result ELSE Null

getIdPrefersSelected(id) ==
  IF Truthy(selectedHistory) THEN selectedHistory ELSE id

getId(id) ==
  LET result == IF Truthy(id) /\ ~isSingle THEN id ELSE selectedHistory
  IN IF result.type = "string" THEN result ELSE Null

\* the session object getData returns, for a call on which it is not null
SessionExists(id) == Truthy(getId(id)) /\ getId(id) \in DOMAIN history

getData(id) == history[getId(id)]

getMsgByIndex(index, id) ==
  IF SessionExists(id) /\ Truthy(At(getData(id)["data"], index))
  THEN At(getData(id)["data"], index)
  ELSE Null

indexExists(index, id) == Truthy(getMsgByIndex(index, id))

getIndexOfId(msgId, id) ==
  IF SessionExists(id) THEN IndexOf(getData(id)["ids"], msgId) ELSE -1

\* the three lookups by message identifier: the position is asked of
\* getIndexOfId without the session id, that is, of the selected session
getMsgTokensById(msgId, id) ==
  IF SessionExists(id) /\ getIndexOfId(msgId, Undefined) > -1
  THEN At(getData(id)["tokens"]["data"].val, getIndexOfId(msgId, Undefined))
  ELSE Null

getMsgHashById(msgId, id) ==
  IF SessionExists(id) /\ getIndexOfId(msgId, Undefined) > -1
  THEN At(getData(id)["hash"]["data"].val, getIndexOfId(msgId, Undefined))
  ELSE Null

getMsgById(msgId, id) ==
  IF SessionExists(id) /\ Truthy(At(getData(id)["data"], getIndexOfId(msgId, Undefined)))
  THEN At(getData(id)["data"], getIndexOfId(msgId, Undefined))
  ELSE Null

getIdByIndex(index, id) ==
  IF SessionExists(id)
  THEN IF Truthy(At(getData(id)["data"], index))
       THEN At(getData(id)["ids"], index)
       ELSE Num(-1)
  ELSE Num(-1)

getCustomValue(name, id) ==
  IF SessionExists(id) /\ name \in DOMAIN getData(id) /\ getData(id)[name] # Null
  THEN getData(id)[name]
  ELSE Null

getCustomValueList(id) ==
  IF SessionExists(id) /\ "customList" \in DOMAIN getData(id)
  THEN getData(id)["customList"]
  ELSE <<>>

getTokens(where, id) ==
  IF SessionExists(id) /\ Get(getData(id)["tokens"], where).type = "number"
  THEN getData(id)["tokens"][where]
  ELSE Null

getHash(where, id) ==
  IF SessionExists(id) /\ Get(getData(id)["hash"], where).type = "string"
  THEN getData(id)["hash"][where]
  ELSE Null

\* the count field of a per-message token record
CountOf(tok) ==
  IF tok.type = "object" /\ "count" \in DOMAIN tok.val THEN tok.val["count"] ELSE Undefined

RECURSIVE SumMsgCounts(_, _)
\* first loop of getTotalTokens: for (msgIndex in history.tokens.data)
SumMsgCounts(seq, k) ==
  IF k > Len(seq) THEN 0
  ELSE (IF CountOf(seq[k]).type = "number" THEN CountOf(seq[k]).val ELSE 0)
       + SumMsgCounts(seq, k + 1)

RECURSIVE SumNumericItems(_, _)
\* second loop of getTotalTokens: for (item in history.tokens)
SumNumericItems(tokens, keys) ==
  IF keys = {} THEN 0
  ELSE LET item == CHOOSE k \in keys : TRUE
       IN (IF tokens[item].type = "number" THEN tokens[item].val ELSE 0)
          + SumNumericItems(tokens, keys \ {item})

\* a total that leaves the scalar entries out
getTotalTokensOfMessages(id) ==
  IF SessionExists(id)
  THEN LET tokens == getData(id)["tokens"]
       IN Num(IF tokens["data"].type = "array"
              THEN SumMsgCounts(tokens["data"].val, 1)
              ELSE 0)
  ELSE Null

getTotalTokens(id) ==
  IF SessionExists(id)
  THEN LET tokens == getData(id)["tokens"]
       IN Num((IF tokens["data"].type = "array"
               THEN SumMsgCounts(tokens["data"].val, 1)
               ELSE 0)
              + SumNumericItems(tokens, DOMAIN tokens))
  ELSE Null

----------------------------------------------------------------------------
(* Session store: session lifecycle *)

\* the object startDataId stores
NewSession ==
  [k \in {"data", "ids", "tokens", "hash", "systemInstruction", "model"} |->
     CASE k = "data" -> <<>>
       [] k = "ids" -> <<>>
       [] k = "tokens" -> [d \in {"data"} |-> Arr(<<>>)]
       [] k = "hash" -> [d \in {"data"} |-> Arr(<<>>)]
       [] OTHER -> Null]

\* a selectDataId that takes any id for a session
selectDataIdUnchecked(id) ==
  /\ Record("selectDataId", Bool(TRUE))
  /\ selectedHistory' = id
  /\ UNCHANGED <<history, sysEventsUsed, issued>>
  /\ Emit(<<Ev("selectDataId", <<id>>)>>)

\* a call of a method the constructor has set to null
Unavailable(op) ==
  /\ Record(op, Error("TypeError: " \o op \o " is not a function"))
  /\ UNCHANGED <<history, selectedHistory, sysEventsUsed, issued>>
  /\ Emit(<<>>)

selectDataId(id) ==
  IF isSingle
  THEN Unavailable("selectDataId")
  ELSE /\ Record("selectDataId", Bool(id = Null \/ id \in DOMAIN history))
       /\ selectedHistory' = IF id = Null \/ id \in DOMAIN history THEN id ELSE selectedHistory
       /\ UNCHANGED <<history, sysEventsUsed, issued>>
       /\ Emit(IF id = Null \/ id \in DOMAIN history
               THEN <<Ev("selectDataId", <<id>>)>>
               ELSE <<>>)

startDataId(id, selected) ==
  IF isSingle
  THEN Unavailable("startDataId")
  ELSE /\ history' = Put(history, id, NewSession)
       /\ issued' = Put(issued, id, <<>>)
       /\ selectedHistory' = IF selected THEN id ELSE selectedHistory
       /\ Emit((IF selected THEN <<Ev("selectDataId", <<id>>)>> ELSE <<>>)
               \o <<Ev("startDataId", <<id, Bool(selected)>>)>>)
       /\ Record("startDataId", Obj(NewSession))
       /\ UNCHANGED sysEventsUsed

\* a stopDataId that leaves the selection on the session it removes
stopDataIdKeepsSelection(id) ==
  /\ Record("stopDataId", Bool(id \in DOMAIN history))
  /\ IF id \in DOMAIN history
     THEN /\ history' = Del(history, id)
          /\ issued' = Del(issued, id)
          /\ UNCHANGED selectedHistory
          /\ Emit(<<Ev("stopDataId", <<id>>)>>)
     ELSE /\ Emit(<<>>)
          /\ UNCHANGED <<history, issued, selectedHistory>>
  /\ UNCHANGED sysEventsUsed

stopDataId(id) ==
  IF isSingle
  THEN Unavailable("stopDataId")
  ELSE /\ Record("stopDataId", Bool(id \in DOMAIN history))
       /\ IF id \in DOMAIN history
          THEN /\ history' = Del(history, id)
               /\ issued' = Del(issued, id)
               /\ selectedHistory' = IF selectedHistory = id THEN Null ELSE selectedHistory
               /\ Emit((IF selectedHistory = id THEN <<Ev("selectDataId", <<Null>>)>> ELSE <<>>)
                       \o <<Ev("stopDataId", <<id>>)>>)
          ELSE /\ Emit(<<>>)
               /\ UNCHANGED <<history, issued, selectedHistory>>
       /\ UNCHANGED sysEventsUsed

----------------------------------------------------------------------------
(* Session store: the instance *)

\* destroy: the history is emptied; the selection and the channel flag stay
destroy ==
  /\ Record("destroy", Undefined)
  /\ history' = EmptyMap
  /\ issued' = EmptyMap
  /\ UNCHANGED <<selectedHistory, sysEventsUsed>>
  /\ Emit(<<>>)

\* this.#sysEvents
SysEvents == Obj([emitter |-> "sysEvents"])

\* a getSysEvents without the once-only test
getSysEventsUnguarded ==
  /\ Record("getSysEvents", SysEvents)
  /\ sysEventsUsed' = TRUE
  /\ UNCHANGED <<history, selectedHistory, issued>>
  /\ Emit(<<>>)

getSysEvents ==
  /\ UNCHANGED <<history, selectedHistory, issued>>
  /\ Emit(<<>>)
  /\ IF sysEventsUsed
     THEN /\ Record("getSysEvents",
                    Error("Access denied: getSysEvents() can only be called once."))
          /\ UNCHANGED sysEventsUsed
     ELSE /\ sysEventsUsed' = TRUE
          /\ Record("getSysEvents", SysEvents)

----------------------------------------------------------------------------
(* Session store: message history *)

\* tokenContent of addData: a plain object is kept, a number becomes its count
TokenContent(tokenData) ==
  IF isJsonObject(tokenData)
  THEN tokenData
  ELSE Obj([count |-> IF tokenData.type = "number" THEN tokenData ELSE Null])

\* the identifier addData takes: nextId, started at 0 when it is not a number
NewId(session) ==
  IF Get(session, "nextId").type = "number" THEN session["nextId"] ELSE Num(0)

\* an addData that leaves the counter where it found it
AddedSessionKeepsCounter(session, data, tokenData) ==
  LET tokens == session["tokens"]
      hash == session["hash"]
  IN [Put(session, "nextId", NewId(session)) EXCEPT
        !["data"] = Append(@, data),
        !["tokens"] = Put(tokens, "data", Arr(Append(tokens["data"].val, TokenContent(tokenData)))),
        !["ids"] = Append(@, NewId(session)),
        !["hash"] = Put(hash, "data", Arr(Append(hash["data"].val, objHash(data))))]

\* the session after a completed addData
AddedSession(session, data, tokenData) ==
  LET tokens == session["tokens"]
      hash == session["hash"]
  IN [Put(session, "nextId", Num(NewId(session).val + 1)) EXCEPT
        !["data"] = Append(@, data),
        !["tokens"] = Put(tokens, "data", Arr(Append(tokens["data"].val, TokenContent(tokenData)))),
        !["ids"] = Append(@, NewId(session)),
        !["hash"] = Put(hash, "data", Arr(Append(hash["data"].val, objHash(data))))]

\* the session when tokens.data is no array: push throws after data was pushed
AddInterruptedSession(session, data) ==
  [Put(session, "nextId", Num(NewId(session).val + 1)) EXCEPT
     !["data"] = Append(@, data)]

\* an addData that opens the session it does not find
addDataOpensSession(data, tokenArg, id) ==
  /\ UNCHANGED <<selectedHistory, sysEventsUsed>>
  /\ IF Truthy(id)
     THEN /\ history' = Put(history, id,
                            AddedSession(IF id \in DOMAIN history THEN history[id] ELSE NewSession,
                                         data, Obj([count |-> Null])))
          /\ issued' = Put(issued, id, <<Num(0)>>)
          /\ Emit(<<>>)
          /\ Record("addData", Num(0))
     ELSE /\ Emit(<<>>)
          /\ Record("addData", Thrown)
          /\ UNCHANGED <<history, issued>>

\* tokenData = { count: null } when the argument is omitted
addData(data, tokenArg, id) ==
  LET selectedId == getId(id)
      tokenData == IF tokenArg = Undefined THEN Obj([count |-> Null]) ELSE tokenArg
  IN /\ UNCHANGED <<selectedHistory, sysEventsUsed>>
     /\ IF Truthy(selectedId) /\ selectedId \in DOMAIN history
        THEN LET session == history[selectedId]
             IN IF session["tokens"]["data"].type = "array"
                THEN /\ history' = Put(history, selectedId, AddedSession(session, data, tokenData))
                     /\ issued' = Put(issued, selectedId, Append(issued[selectedId], NewId(session)))
                     /\ Emit(<<Ev("addData", <<NewId(session), data, TokenContent(tokenData),
                                               objHash(data), selectedId>>)>>)
                     /\ Record("addData", NewId(session))
                ELSE /\ history' = Put(history, selectedId, AddInterruptedSession(session, data))
                     /\ Emit(<<>>)
                     /\ Record("addData", Thrown)
                     /\ UNCHANGED issued
        ELSE /\ Emit(<<>>)
             /\ Record("addData", Thrown)
             /\ UNCHANGED <<history, issued>>

\* deleteIndex without its ids.splice
DeletedSessionKeepsIds(session, index) ==
  [session EXCEPT
     !["data"] = Splice1(@, index),
     !["hash"] = Put(@, "data", Arr(Splice1(@["data"].val, index))),
     !["tokens"] = Put(@, "data", Arr(Splice1(@["data"].val, index)))]

\* deleteIndex removing the last token record instead of the one at index
DeletedSessionPopsTokens(session, index) ==
  [session EXCEPT
     !["data"] = Splice1(@, index),
     !["ids"] = Splice1(@, index),
     !["hash"] = Put(@, "data", Arr(Splice1(@["data"].val, index))),
     !["tokens"] = Put(@, "data", Arr(SubSeq(@["data"].val, 1, Len(@["data"].val) - 1)))]

\* the session after deleteIndex's splices; tokens.data.splice comes last and
\* throws when tokens.data is no array, the three splices before it done
DeletedSession(session, index) ==
  LET s1 == [session EXCEPT
               !["data"] = Splice1(@, index),
               !["ids"] = Splice1(@, index),
               !["hash"] = Put(@, "data", Arr(Splice1(@["data"].val, index)))]
  IN IF session["tokens"]["data"].type = "array"
     THEN [s1 EXCEPT !["tokens"] = Put(@, "data", Arr(Splice1(@["data"].val, index)))]
     ELSE s1

deleteIndex(index, id) ==
  /\ UNCHANGED <<selectedHistory, sysEventsUsed, issued>>
  /\ IF SessionExists(id) /\ Truthy(At(getData(id)["data"], index))
     THEN /\ history' = Put(history, getId(id), DeletedSession(getData(id), index))
          /\ IF getData(id)["tokens"]["data"].type = "array"
             THEN /\ Emit(<<Ev("deleteIndex",
                               <<index, getIdByIndex(index, Undefined), getId(id)>>)>>)
                  /\ Record("deleteIndex", Bool(TRUE))
             ELSE /\ Emit(<<>>)
                  /\ Record("deleteIndex", Thrown)
     ELSE /\ Emit(<<>>)
          /\ Record("deleteIndex", Bool(FALSE))
          /\ UNCHANGED history

\* a replaceIndex that writes the hash of its data argument even when it is omitted
ReplacedSessionRehashed(session, index, data, tokens) ==
  LET s1 == [session EXCEPT
               !["data"] = IF Truthy(data) THEN SetAt(@, index, data) ELSE @,
               !["hash"] = Put(@, "data", Arr(SetAt(@["data"].val, index, objHash(data))))]
  IN IF Truthy(tokens)
     THEN [s1 EXCEPT !["tokens"] = Put(@, "data", Arr(SetAt(@["data"].val, index, tokens)))]
     ELSE s1

\* the session after replaceIndex's assignments; the module is strict-mode code,
\* so tokens.data[index] = tokens throws when tokens.data is a number
ReplacedSession(session, index, data, tokens) ==
  LET s1 == IF Truthy(data)
            THEN [session EXCEPT
                    !["data"] = SetAt(@, index, data),
                    !["hash"] = Put(@, "data", Arr(SetAt(@["data"].val, index, objHash(data))))]
            ELSE session
  IN IF Truthy(tokens) /\ session["tokens"]["data"].type = "array"
     THEN [s1 EXCEPT !["tokens"] = Put(@, "data", Arr(SetAt(@["data"].val, index, tokens)))]
     ELSE s1

replaceIndex(index, data, tokens, id) ==
  /\ UNCHANGED <<selectedHistory, sysEventsUsed, issued>>
  /\ IF /\ SessionExists(id)
        /\ Truthy(At(getData(id)["data"], index))
        /\ (Truthy(data) \/ Truthy(tokens))
     THEN /\ Record("replaceIndex",
                    IF Truthy(tokens) /\ getData(id)["tokens"]["data"].type # "array"
                    THEN Thrown
                    ELSE Bool(TRUE))
          /\ history' = Put(history, getId(id), ReplacedSession(getData(id), index, data, tokens))
          /\ Emit(IF Truthy(tokens) /\ getData(id)["tokens"]["data"].type # "array"
                  THEN <<>>
                  ELSE <<Ev("replaceIndex",
                            <<index, data, tokens,
                              IF Truthy(data) THEN objHash(data) ELSE Null, getId(id)>>)>>)
     ELSE /\ Record("replaceIndex", Bool(FALSE))
          /\ Emit(<<>>)
          /\ UNCHANGED history

----------------------------------------------------------------------------
(* Session store: custom values *)

\* #capitalizeFirstLetter, on the names the model uses
capitalizeFirstLetter(str) ==
  CASE str = "" -> ""
    [] str = "mood" -> "Mood"
    [] str = "model" -> "Model"
    [] str = "nextId" -> "NextId"
    [] str = "data" -> "Data"
    [] str = "prompt" -> "Prompt"
    [] str = "temperature" -> "Temperature"
    [] str = "tone" -> "Tone"
    [] str = "ids" -> "Ids"
    [] str = "tokens" -> "Tokens"
    [] str = "hash" -> "Hash"
    [] str = "systemInstruction" -> "SystemInstruction"
    [] str = "lang" -> "Lang"
    [] str = "customList" -> "CustomList"
    [] OTHER -> str

\* a name check that lets the reserved name through
ValidCustomNameNotReserved(name) == name.type = "string" /\ name.val # ""

\* typeof name === 'string' && name.length > 0 && name !== 'customList'
ValidCustomName(name) == name.type = "string" /\ name.val # "" /\ name.val # "customList"

RECURSIVE FindIndexFrom(_, _, _)
FindIndexFrom(list, key, k) ==
  IF k > Len(list) THEN -1
  ELSE IF list[k].name = key THEN k - 1
  ELSE FindIndexFrom(list, key, k + 1)

\* customList.findIndex((item) => item.name === name)
FindIndex(list, key) == FindIndexFrom(list, key, 1)

\* customList.find((item) => item.name === name)
Find(list, key) == At(list, FindIndex(list, key))

\* if (!Array.isArray(history.customList)) history.customList = []
WithCustomList(session) ==
  IF "customList" \in DOMAIN session THEN session ELSE Put(session, "customList", <<>>)

\* a validation that accepts a value of any type for a registered name
CustomValueCheckAnyType(session, key, value) ==
  IF value # Null
     /\ Find(WithCustomList(session)["customList"], key) = Undefined
     /\ key \in DOMAIN session
  THEN "This value name is already being used!"
  ELSE "ok"

\* a validation that registers an unregistered name whatever the session holds
CustomValueCheckFreeName(session, key, value) ==
  LET props == Find(WithCustomList(session)["customList"], key)
  IN IF value = Null \/ props = Undefined THEN "ok"
     ELSE IF props.type # objType(value) THEN "Invalid custom value type!" ELSE "ok"

\* "ok", or the message of the error the validation of setCustomValue throws
CustomValueCheck(session, key, value) ==
  LET props == Find(WithCustomList(session)["customList"], key)
  IN IF value = Null THEN "ok"
     ELSE IF props = Undefined
          THEN IF key \in DOMAIN session
               THEN "This value name is already being used!"
               ELSE "ok"
          ELSE IF props.type # objType(value) THEN "Invalid custom value type!" ELSE "ok"

\* a setCustomValue that records a descriptor with every value it stores
CustomValueSetRegistersAgain(session, key, value, tokenAmount) ==
  LET s0 == WithCustomList(session)
      s1 == IF value # Null
            THEN [s0 EXCEPT !["customList"] =
                    Append(@, [name |-> key, type |-> objType(value)])]
            ELSE s0
      s2 == IF tokenAmount.type = "number"
            THEN [s1 EXCEPT !["tokens"] = Put(@, key, tokenAmount)]
            ELSE s1
  IN IF value # Null
     THEN [Put(s2, key, value) EXCEPT !["hash"] = Put(@, key, objHash(value))]
     ELSE s2

\* the session after a setCustomValue that passed its validation
CustomValueSet(session, key, value, tokenAmount) ==
  LET s0 == WithCustomList(session)
      s1 == IF value # Null /\ Find(s0["customList"], key) = Undefined
            THEN [s0 EXCEPT !["customList"] =
                    Append(@, [name |-> key, type |-> objType(value)])]
            ELSE s0
      s2 == IF tokenAmount.type = "number"
            THEN [s1 EXCEPT !["tokens"] = Put(@, key, tokenAmount)]
            ELSE s1
  IN IF value # Null
     THEN [Put(s2, key, value) EXCEPT !["hash"] = Put(@, key, objHash(value))]
     ELSE s2

setCustomValue(name, value, tokenAmount, id) ==
  /\ UNCHANGED <<selectedHistory, sysEventsUsed, issued>>
  /\ IF ValidCustomName(name) /\ SessionExists(id)
     THEN IF CustomValueCheck(getData(id), name.val, value) = "ok"
          THEN /\ Record("setCustomValue", Undefined)
               /\ history' = Put(history, getId(id),
                                 CustomValueSet(getData(id), name.val, value, tokenAmount))
               /\ Emit(<<Ev("set" \o capitalizeFirstLetter(name.val), <<value, getId(id)>>)>>)
          ELSE /\ Record("setCustomValue",
                         Error(CustomValueCheck(getData(id), name.val, value)))
               /\ Emit(<<>>)
               /\ history' = Put(history, getId(id), WithCustomList(getData(id)))
     ELSE /\ Record("setCustomValue", Error("Invalid custom value!"))
          /\ Emit(<<>>)
          /\ UNCHANGED history

\* whether resetCustomValue finds a descriptor to reset
CanReset(name, id) ==
  /\ ValidCustomName(name)
  /\ SessionExists(id)
  /\ Find(WithCustomList(getData(id))["customList"], name.val) # Undefined

\* a reset that leaves the hash entry behind
CustomValueResetKeepsHash(session, key) ==
  [Put(session, key, Null) EXCEPT !["tokens"] = Del(@, key)]

\* the session after a resetCustomValue that found its descriptor
CustomValueReset(session, key) ==
  [Put(session, key, Null) EXCEPT
     !["tokens"] = Del(@, key),
     !["hash"] = Del(@, key)]

\* the session after a resetCustomValue that threw for want of a descriptor
ResetRefused(name, id) ==
  IF ValidCustomName(name) /\ SessionExists(id)
  THEN Put(history, getId(id), WithCustomList(getData(id)))
  ELSE history

resetCustomValue(name, id) ==
  /\ UNCHANGED <<selectedHistory, sysEventsUsed, issued>>
  /\ IF CanReset(name, id)
     THEN /\ history' = Put(history, getId(id), CustomValueReset(getData(id), name.val))
          /\ Emit(<<Ev("set" \o capitalizeFirstLetter(name.val), <<Null, getId(id)>>)>>)
          /\ Record("resetCustomValue", Undefined)
     ELSE /\ history' = ResetRefused(name, id)
          /\ Emit(<<>>)
          /\ Record("resetCustomValue", Thrown)

\* customList.splice(index, 1) for the index findIndex returns, when it is > -1
DescriptorRemoved(session, key) ==
  IF FindIndex(session["customList"], key) > -1
  THEN [session EXCEPT !["customList"] = Splice1(@, FindIndex(@, key))]
  ELSE session

\* resetCustomValue, then the descriptor is spliced out of customList
eraseCustomValue(name, id) ==
  /\ UNCHANGED <<selectedHistory, sysEventsUsed, issued>>
  /\ IF CanReset(name, id)
     THEN /\ history' = Put(history, getId(id),
                            DescriptorRemoved(CustomValueReset(getData(id), name.val), name.val))
          /\ Emit(<<Ev("set" \o capitalizeFirstLetter(name.val), <<Null, getId(id)>>)>>)
          /\ Record("eraseCustomValue", Undefined)
     ELSE /\ history' = ResetRefused(name, id)
          /\ Emit(<<>>)
          /\ Record("eraseCustomValue", Thrown)

----------------------------------------------------------------------------
(* Session store: scalar fields *)

\* the session after setPrompt
PromptSet(session, promptData, tokenAmount) ==
  LET s1 == IF promptData.type = "string"
            THEN [Put(session, "prompt", promptData) EXCEPT
                    !["hash"] = Put(@, "prompt", objHash(promptData))]
            ELSE session
  IN IF tokenAmount.type = "number"
     THEN [s1 EXCEPT !["tokens"] = Put(@, "prompt", tokenAmount)]
     ELSE s1

setPrompt(promptData, tokenAmount, id) ==
  /\ UNCHANGED <<selectedHistory, sysEventsUsed, issued>>
  /\ IF SessionExists(id)
     THEN /\ history' = Put(history, getId(id), PromptSet(getData(id), promptData, tokenAmount))
          /\ Emit(<<Ev("setPrompt", <<promptData, getId(id)>>)>>)
          /\ Record("setPrompt", Undefined)
     ELSE /\ Emit(<<>>)
          /\ Record("setPrompt", Thrown)
          /\ UNCHANGED history

----------------------------------------------------------------------------
(* Scalar settings *)

\* typeof value
typeOf(v) ==
  Str(CASE v.type \in {"null", "array"} -> "object"
        [] OTHER -> v.type)

\* the two IEEE values that are numbers and are neither finite nor comparable
NaN == [type |-> "number", nan |-> TRUE]
Infinity == [type |-> "number", inf |-> TRUE]

\* typeof value === 'number' && !Number.isNaN(value) && Number.isFinite(value)
isFiniteNumber(value) == value.type = "number" /\ "val" \in DOMAIN value

\* #_insertIntoHistory: history after the write, and untouched when id names no session
insertIntoHistory(id, where, value) ==
  IF id.type = "string" /\ id \in DOMAIN history
  THEN Put(history, id, Put(history[id], where, value))
  ELSE history

\* the body the six numeric setters share
setNumber(op, where, value, id) ==
  /\ UNCHANGED <<selectedHistory, sysEventsUsed, issued>>
  /\ IF isFiniteNumber(value)
     THEN /\ Record(op, Undefined)
          /\ history' = insertIntoHistory(getId(id), where, value)
          /\ Emit(<<Ev(op, <<value, getId(id)>>)>>)
     ELSE /\ Record(op, Error("Invalid number value!"))
          /\ UNCHANGED history
          /\ Emit(<<>>)

setMaxOutputTokens(value, id) == setNumber("setMaxOutputTokens", "maxOutputTokens", value, id)
setTemperature(value, id) == setNumber("setTemperature", "temperature", value, id)
setTopP(value, id) == setNumber("setTopP", "topP", value, id)
setTopK(value, id) == setNumber("setTopK", "topK", value, id)
setPresencePenalty(value, id) == setNumber("setPresencePenalty", "presencePenalty", value, id)
setFrequencyPenalty(value, id) == setNumber("setFrequencyPenalty", "frequencyPenalty", value, id)

setEnabledEnchancedCivicAnswers(value, id) ==
  /\ UNCHANGED <<selectedHistory, sysEventsUsed, issued>>
  /\ IF value.type = "boolean"
     THEN /\ Record("setEnabledEnchancedCivicAnswers", Undefined)
          /\ history' = insertIntoHistory(getId(id), "enableEnhancedCivicAnswers", value)
          /\ Emit(<<Ev("setEnabledEnchancedCivicAnswers", <<value, getId(id)>>)>>)
     ELSE /\ Record("setEnabledEnchancedCivicAnswers", Error("Invalid boolean value!"))
          /\ UNCHANGED history
          /\ Emit(<<>>)

\* const model = typeof data === 'string' ? data : null
ModelOf(data) == IF data.type = "string" THEN data ELSE Null

setModel(data, id) ==
  /\ UNCHANGED <<selectedHistory, sysEventsUsed, issued>>
  /\ Record("setModel", Undefined)
  /\ history' = insertIntoHistory(getId(id), "model", ModelOf(data))
  /\ Emit(<<Ev("setModel", <<ModelOf(data), getId(id)>>)>>)

\* the session after setSystemInstruction or setFirstDialogue on the field where
TextSet(session, where, data, tokenAmount) ==
  LET s1 == IF data.type = "string"
            THEN [Put(session, where, data) EXCEPT !["hash"] = Put(@, where, objHash(data))]
            ELSE session
  IN IF tokenAmount.type = "number"
     THEN [s1 EXCEPT !["tokens"] = Put(@, where, tokenAmount)]
     ELSE s1

setFirstDialogue(dialogue, tokenAmount, id) ==
  /\ UNCHANGED <<selectedHistory, sysEventsUsed, issued>>
  /\ IF SessionExists(id)
     THEN /\ Record("setFirstDialogue", Undefined)
          /\ history' = Put(history, getId(id),
                            TextSet(getData(id), "firstDialogue", dialogue, tokenAmount))
          /\ Emit(<<Ev("setFirstDialogue", <<dialogue, getId(id)>>)>>)
     ELSE /\ Record("setFirstDialogue", Error("Invalid history id data!"))
          /\ UNCHANGED history
          /\ Emit(<<>>)

setSystemInstruction(data, tokenAmount, id) ==
  /\ UNCHANGED <<selectedHistory, sysEventsUsed, issued>>
  /\ IF SessionExists(id)
     THEN /\ Record("setSystemInstruction", Undefined)
          /\ history' = Put(history, getId(id),
                            TextSet(getData(id), "systemInstruction", data, tokenAmount))
          /\ Emit(<<Ev("setSystemInstruction", <<data, getId(id)>>)>>)
     ELSE /\ Record("setSystemInstruction", Error("Invalid history id data!"))
          /\ UNCHANGED history
          /\ Emit(<<>>)

\* history && typeof history[where] === type ? history[where] : null
getTyped(where, type, id) ==
  IF SessionExists(id) /\ typeOf(Get(getData(id), where)) = Str(type)
  THEN getData(id)[where]
  ELSE Null

getMaxOutputTokens(id) == getTyped("maxOutputTokens", "number", id)

\* the test is on the type name itself, which no value makes falsy
getTemperature(id) ==
  IF SessionExists(id) /\ Truthy(typeOf(Get(getData(id), "temperature")))
  THEN Get(getData(id), "temperature")
  ELSE Null

getTopP(id) == getTyped("topP", "number", id)
getTopK(id) == getTyped("topK", "number", id)
getPresencePenalty(id) == getTyped("presencePenalty", "number", id)
getFrequencyPenalty(id) == getTyped("frequencyPenalty", "number", id)
isEnabledEnchancedCivicAnswers(id) == getTyped("enableEnhancedCivicAnswers", "boolean", id)
getModel(id) == getTyped("model", "string", id)
getSystemInstruction(id) == getTyped("systemInstruction", "string", id)

getPrompt(id) ==
  IF getTyped("prompt", "string", id) # Null /\ Len(getTyped("prompt", "string", id).val) > 0
  THEN getTyped("prompt", "string", id)
  ELSE Null

getFirstDialogue(id) ==
  IF getTyped("firstDialogue", "string", id) # Null
     /\ Len(getTyped("firstDialogue", "string", id).val) > 0
  THEN getTyped("firstDialogue", "string", id)
  ELSE Null

----------------------------------------------------------------------------
(* Model catalog *)

\* this.models.findIndex((item) => item.id === id), 1-based from position k
RECURSIVE FindModelIndexFrom(_, _, _)
FindModelIndexFrom(list, id, k) ==
  IF k > Len(list) THEN -1
  ELSE IF Get(list[k], "id") = id THEN k - 1
  ELSE FindModelIndexFrom(list, id, k + 1)

FindModelIndex(list, id) == FindModelIndexFrom(list, id, 1)

\* this.models.find((item) => item.category === categoryId), as a 0-based index
RECURSIVE FindCategoryIndexFrom(_, _, _)
FindCategoryIndexFrom(list, categoryId, k) ==
  IF k > Len(list) THEN -1
  ELSE IF Get(list[k], "category") = categoryId THEN k - 1
  ELSE FindCategoryIndexFrom(list, categoryId, k + 1)

\* the loop of getModelData over the categories, from position k
RECURSIVE FindInCategoriesFrom(_, _, _)
FindInCategoriesFrom(list, id, k) ==
  IF k > Len(list) THEN Null
  ELSE IF Truthy(Get(list[k], "category")) /\ FindModelIndex(list[k]["data"], id) > -1
       THEN Obj(At(list[k]["data"], FindModelIndex(list[k]["data"], id)))
       ELSE FindInCategoriesFrom(list, id, k + 1)

getModelData(id) ==
  IF FindModelIndex(models, id) > -1
  THEN Obj(At(models, FindModelIndex(models, id)))
  ELSE FindInCategoriesFrom(models, id, 1)

existsModel(id) == Truthy(getModelData(id))

\* a sort that puts an item ahead of the items of equal index
InsertByIndexAheadOfTies(sorted, item) ==
  LET ahead == Cardinality({k \in 1..Len(sorted) : sorted[k]["index"].val < item["index"].val})
  IN SubSeq(sorted, 1, ahead) \o <<item>> \o SubSeq(sorted, ahead + 1, Len(sorted))

\* array.sort((a, b) => a.index - b.index) is stable: an item goes behind every
\* item of the sorted prefix whose index is not greater
InsertByIndex(sorted, item) ==
  LET ahead == Cardinality({k \in 1..Len(sorted) : sorted[k]["index"].val <= item["index"].val})
  IN SubSeq(sorted, 1, ahead) \o <<item>> \o SubSeq(sorted, ahead + 1, Len(sorted))

RECURSIVE SortByIndexFrom(_, _, _)
SortByIndexFrom(list, k, sorted) ==
  IF k > Len(list) THEN sorted
  ELSE SortByIndexFrom(list, k + 1, InsertByIndex(sorted, list[k]))

SortByIndex(list) == SortByIndexFrom(list, 1, <<>>)

StringFields == {"name", "id", "displayName", "version", "description"}
NumberFields == {"inputTokenLimit", "outputTokenLimit", "temperature", "maxTemperature",
                 "topP", "topK"}

\* the normalized record _insertNewModel builds
NewModelData(model) ==
  LET newData ==
        [f \in {"_response", "index"} \cup StringFields \cup NumberFields |->
           IF f = "_response" THEN Get(model, f)
           ELSE IF f = "index"
                THEN IF Get(model, f).type = "number" THEN model[f] ELSE Num(9999999)
           ELSE IF f \in StringFields
                THEN IF Get(model, f).type = "string" THEN model[f] ELSE Null
           ELSE IF Get(model, f).type = "number" THEN model[f] ELSE Null]
      methods == Get(model, "supportedGenerationMethods")
  IN IF methods.type = "array"
     THEN Put(newData, "supportedGenerationMethods",
              Arr(SelectSeq(methods.val, LAMBDA method : method.type = "string")))
     ELSE newData

\* model.category with a string id, a string displayName and a numeric index
HasCategory(model) ==
  /\ Get(model, "category").type = "object"
  /\ Get(model["category"].val, "id").type = "string"
  /\ Get(model["category"].val, "displayName").type = "string"
  /\ Get(model["category"].val, "index").type = "number"

\* the catalog with the category entry of the model, pushed when it is new
WithCategory(list, model) ==
  IF FindCategoryIndexFrom(list, model["category"].val["id"], 1) > -1
  THEN list
  ELSE Append(list, [category |-> model["category"].val["id"],
                     displayName |-> model["category"].val["displayName"],
                     index |-> model["category"].val["index"],
                     data |-> <<>>])

\* the catalog after an insertion that passed the id test
InsertedModels(list, model) ==
  IF HasCategory(model)
  THEN LET listed == WithCategory(list, model)
           k == FindCategoryIndexFrom(listed, model["category"].val["id"], 1) + 1
       IN SortByIndex([listed EXCEPT
                         ![k]["data"] = SortByIndex(Append(@, NewModelData(model)))])
  ELSE SortByIndex(Append(list, NewModelData(model)))

_insertNewModel(model) ==
  /\ UNCHANGED <<history, selectedHistory, sysEventsUsed, issued>>
  /\ Emit(<<>>)
  /\ IF ~isJsonObject(model)
     THEN /\ Record("_insertNewModel", Error("Model data must be a valid object."))
          /\ UNCHANGED models
     ELSE IF FindModelIndex(models, Get(model.val, "id")) < 0
          THEN /\ models' = InsertedModels(models, model.val)
               /\ Record("_insertNewModel", Obj(NewModelData(model.val)))
          ELSE /\ Record("_insertNewModel", Null)
               /\ UNCHANGED models

----------------------------------------------------------------------------
(* Content building *)

\* #_partTypes.text
PartText(text) == IF text.type = "string" THEN text ELSE Null

\* #_partTypes.inlineData, for a value that has properties: a value that is not
\* an object has neither mime_type nor data
PartInlineData(data) ==
  IF /\ data.type = "object"
     /\ Get(data.val, "mime_type").type = "string"
     /\ Get(data.val, "data").type = "string"
  THEN data
  ELSE Null

\* #_partTypes.inlineData reads a property of null or undefined
insertPartThrows(content) ==
  "inlineData" \in DOMAIN content /\ content["inlineData"].type \in {"null", "undefined"}

\* an insertPart that copies every key of the part
insertPartCopiesAll(content) ==
  [valName \in DOMAIN content |->
     IF valName = "text" THEN PartText(content[valName])
     ELSE IF valName = "inlineData" THEN PartInlineData(content[valName])
     ELSE content[valName]]

\* insertPart: only the keys #_partTypes knows are copied
insertPart(content) ==
  [valName \in DOMAIN content \cap {"text", "inlineData"} |->
     IF valName = "text" THEN PartText(content[valName]) ELSE PartInlineData(content[valName])]

\* the contentData buildContents pushes
buildContents(item, role, rmFinishReason) ==
  [parts |-> IF Get(item, "parts").type = "array"
             THEN [k \in 1..Len(item["parts"].val) |-> insertPart(item["parts"].val[k])]
             ELSE IF Truthy(Get(item, "content"))
                  THEN <<insertPart(item["content"].val)>>
                  ELSE <<>>,
   finishReason |-> IF ~rmFinishReason /\ Get(item, "finishReason").type \in {"string", "number"}
                    THEN item["finishReason"]
                    ELSE Undefined,
   role |-> IF role.type = "string" THEN role ELSE Undefined]

\* whether buildContents ends in the TypeError of a part
buildContentsThrows(item) ==
  IF Get(item, "parts").type = "array"
  THEN \E k \in 1..Len(item["parts"].val) : insertPartThrows(item["parts"].val[k])
  ELSE Truthy(Get(item, "content")) /\ insertPartThrows(item["content"].val)

\* a call of buildContents without a contents array
buildContentsCall(item, role, rmFinishReason) ==
  /\ lastCall' = "buildContents"
  /\ input' = [item |-> item, role |-> role, rmFinishReason |-> rmFinishReason]
  /\ ret' = IF buildContentsThrows(item)
            THEN Error("TypeError")
            ELSE Obj(buildContents(item, role, rmFinishReason))
  /\ UNCHANGED <<history, selectedHistory, sysEventsUsed, issued>>
  /\ Emit(<<>>)

\* String.prototype.toUpperCase on the finish reasons of the inputs
toUpperCase(str) ==
  CASE str = "stop" -> "STOP"
    [] str = "max_tokens" -> "MAX_TOKENS"
    [] OTHER -> str

\* buildContent: one content per candidate that has one
RECURSIVE buildContentFrom(_, _, _)
buildContentFrom(candidates, k, contents) ==
  IF k > Len(candidates) THEN contents
  ELSE LET item == candidates[k]
           finishReason == IF Get(item, "finishReason").type = "string"
                           THEN Str(toUpperCase(item["finishReason"].val))
                           ELSE Null
       IN IF Truthy(Get(item, "content"))
          THEN buildContentFrom(candidates, k + 1,
                 Append(contents,
                        [buildContents(item["content"].val,
                                       Get(item["content"].val, "role"), FALSE)
                           EXCEPT !["finishReason"] = finishReason]))
          ELSE buildContentFrom(candidates, k + 1, contents)

buildContent(result, contents) ==
  IF Get(result, "candidates").type = "array"
  THEN buildContentFrom(result["candidates"].val, 1, contents)
  ELSE contents

\* buildUsageMetada(result)[0]
buildUsageMetada(result) ==
  LET usage == IF Truthy(Get(result, "usageMetadata")) THEN result["usageMetadata"].val
               ELSE EmptyMap
      count(key) == IF Get(usage, key).type = "number" THEN usage[key] ELSE Null
  IN [count |-> [candidates |-> count("candidatesTokenCount"),
                 prompt |-> count("promptTokenCount"),
                 total |-> count("totalTokenCount")]]

\* finalPromise, for a result without an error
finalPromise(result) ==
  [_response |-> result,
   contents |-> buildContent(result, <<>>),
   modelVersion |-> IF Get(result, "modelVersion").type = "string"
                    THEN result["modelVersion"] ELSE Null,
   tokenUsage |-> buildUsageMetada(result)]

----------------------------------------------------------------------------
(* Google adapter: streaming generation *)

\* a snapshot that holds the text of the last fragment only
SnapshotOfFragment(snapshot, text, role) ==
  LET s1 == Put(IF Truthy(snapshot) THEN snapshot.val ELSE EmptyMap, "text", text)
  IN Obj(IF role.type = "string" THEN Put(s1, "role", role) ELSE s1)

\* streamCache[index][index2] after a text was added to it
Snapshot(snapshot, text, role) ==
  LET s0 == IF Truthy(snapshot) THEN snapshot.val ELSE EmptyMap
      s1 == IF Get(s0, "text").type # "string" THEN Put(s0, "text", Str("")) ELSE s0
      s2 == Put(s1, "text", Str(s1["text"].val \o text.val))
  IN Obj(IF role.type = "string" THEN Put(s2, "role", role) ELSE s2)

\* the loops over tinyData.contents and their parts, from (index, index2) on:
\* the cache and the contents they leave
RECURSIVE Accumulate(_, _, _, _)
Accumulate(cache, contents, index, index2) ==
  IF index >= Len(contents) THEN [cache |-> cache, contents |-> contents]
  ELSE LET cache1 == IF At(cache, index).type # "array"
                     THEN SetAt(cache, index, Arr(<<>>))
                     ELSE cache
           parts == contents[index + 1]["parts"]
       IN IF index2 >= Len(parts)
          THEN Accumulate(cache1, contents, index + 1, 0)
          ELSE IF Get(parts[index2 + 1], "text").type = "string"
               THEN LET snapshot == Snapshot(At(cache1[index + 1].val, index2),
                                             parts[index2 + 1]["text"],
                                             contents[index + 1]["role"])
                    IN Accumulate(
                         SetAt(cache1, index,
                               Arr(SetAt(cache1[index + 1].val, index2, snapshot))),
                         [contents EXCEPT
                            ![index + 1]["parts"][index2 + 1]["text"] = snapshot.val["text"]],
                         index, index2 + 1)
               ELSE Accumulate(cache1, contents, index, index2 + 1)

\* the loop over jsonChunk from position k on: what the reader holds afterwards
RECURSIVE TakeResults(_, _, _)
TakeResults(jsonChunk, k, reader) ==
  IF k > Len(jsonChunk) THEN reader
  ELSE IF Truthy(jsonChunk[k])
       THEN LET result == jsonChunk[k].val
                taken == Accumulate(reader.streamCache, buildContent(result, <<>>), 0, 0)
            IN TakeResults(jsonChunk, k + 1,
                 [streamCache |-> taken.cache,
                  streamResult |-> result,
                  notified |-> Append(reader.notified,
                                      [tokenUsage |-> buildUsageMetada(result),
                                       contents |-> taken.contents,
                                       done |-> Bool(FALSE)])])
       ELSE TakeResults(jsonChunk, k + 1, reader)

\* a reader that forgets its snapshots when a chunk cannot be parsed
ReadValueForgetful(chunk, reader) ==
  IF chunk.kind = "json" THEN TakeResults(chunk.json, 1, reader)
  ELSE IF chunk.kind = "malformed" THEN [reader EXCEPT !.streamCache = <<>>]
  ELSE reader

\* one pass of the reader loop over a chunk that is not the last: a chunk is
\* given by what trim, jsonrepair and JSON.parse make of it
ReadValue(chunk, reader) ==
  IF chunk.kind = "json" THEN TakeResults(chunk.json, 1, reader) ELSE reader

\* whether the final loop reads a snapshot list that does not exist
FinalThrows(contents, cache) ==
  \E index \in 0..(Len(contents) - 1) :
    /\ At(cache, index).type # "array"
    /\ \E index2 \in 1..Len(contents[index + 1]["parts"]) :
         Get(contents[index + 1]["parts"][index2], "text").type = "string"

\* the final loop: every string text is assigned streamCache[index][index2]
FinalContents(contents, cache) ==
  [i \in 1..Len(contents) |->
     [contents[i] EXCEPT
        !["parts"] = [j \in 1..Len(@) |->
                        IF Get(@[j], "text").type = "string"
                        THEN Put(@[j], "text", At(cache[i].val, j - 1))
                        ELSE @[j]]]]

Resolved(value) == [status |-> "resolved", value |-> value]
Rejected(reason) == [status |-> "rejected", reason |-> reason]

\* the generation request with isStream: the fetch settles, and with a body and
\* an ok status streamingResponse starts
genContent(response) ==
  /\ pc \in {"idle", "settled"}
  /\ countData' = 0
  /\ streamCache' = <<>>
  /\ streamResult' = EmptyMap
  /\ received' = <<>>
  /\ notified' = <<>>
  /\ settledAt' = 0
  /\ IF response = "ok"
     THEN pc' = "reading" /\ outcome' = Undefined
     ELSE pc' = "settled" /\ outcome' = Rejected(response)

\* await reader.read() returns a chunk with done = false
readChunk(chunk) ==
  /\ pc = "reading"
  /\ LET reader == ReadValue(chunk, [streamCache |-> streamCache,
                                     streamResult |-> streamResult,
                                     notified |-> notified])
     IN /\ streamCache' = reader.streamCache
        /\ streamResult' = reader.streamResult
        /\ notified' = reader.notified
  /\ countData' = countData + 1
  /\ received' = Append(received, chunk)
  /\ UNCHANGED <<pc, outcome, settledAt>>

\* a reader that settles the promise and then sends the last notification
readDoneSettlesFirst ==
  /\ pc = "reading"
  /\ pc' = "settled"
  /\ countData' = countData + 1
  /\ settledAt' = Len(notified)
  /\ notified' = Append(notified, [done |-> Bool(TRUE)])
  /\ outcome' = LET finalData == finalPromise(streamResult)
                IN IF FinalThrows(finalData.contents, streamCache)
                   THEN Rejected("TypeError")
                   ELSE Resolved([finalData EXCEPT
                                    !.contents = FinalContents(@, streamCache)])
  /\ UNCHANGED <<streamCache, streamResult, received>>

\* await reader.read() returns done = true: the last notification is sent, then
\* the final data is built and the promise settles
readDone ==
  /\ pc = "reading"
  /\ pc' = "settled"
  /\ countData' = countData + 1
  /\ notified' = Append(notified, [done |-> Bool(TRUE)])
  /\ settledAt' = Len(notified) + 1
  /\ outcome' = LET finalData == finalPromise(streamResult)
                IN IF FinalThrows(finalData.contents, streamCache)
                   THEN Rejected("TypeError")
                   ELSE Resolved([finalData EXCEPT
                                    !.contents = FinalContents(@, streamCache)])
  /\ UNCHANGED <<streamCache, streamResult, received>>

\* a reader that answers a failed read with what it has accumulated
readFailsWithPartialResult ==
  /\ pc = "reading"
  /\ pc' = "settled"
  /\ outcome' = Resolved(finalPromise(streamResult))
  /\ settledAt' = Len(notified)
  /\ UNCHANGED <<countData, streamCache, streamResult, received, notified>>

\* await reader.read() rejects
readFails ==
  /\ pc = "reading"
  /\ pc' = "settled"
  /\ outcome' = Rejected("read")
  /\ settledAt' = Len(notified)
  /\ UNCHANGED <<countData, streamCache, streamResult, received, notified>>

\* the requests that are in flight together
Ops == {"a", "b"}

\* a request that was not made yet: the locals of streamingResponse do not exist
IdleFlight ==
  [pc |-> "idle", streamCache |-> <<>>, streamResult |-> EmptyMap, received |-> <<>>,
   notified |-> <<>>, outcome |-> Undefined, got |-> Undefined]

NoFlights == [op \in Ops |-> IdleFlight]

\* genContent with isStream for one of the requests: a new promise, and a new
\* streamingResponse with its own streamResult = {} and streamCache = []
flightStart(op) ==
  /\ flights[op].pc = "idle"
  /\ flights' = [flights EXCEPT ![op] = [IdleFlight EXCEPT !.pc = "reading"]]

\* await reader.read() of one request returns a chunk with done = false
flightChunk(op, chunk) ==
  /\ flights[op].pc = "reading"
  /\ LET reader == ReadValue(chunk, [streamCache |-> flights[op].streamCache,
                                     streamResult |-> flights[op].streamResult,
                                     notified |-> flights[op].notified])
     IN flights' = [flights EXCEPT
                      ![op].streamCache = reader.streamCache,
                      ![op].streamResult = reader.streamResult,
                      ![op].notified = reader.notified,
                      ![op].received = Append(@, chunk)]

\* await reader.read() of one request returns done = true
flightDone(op) ==
  /\ flights[op].pc = "reading"
  /\ flights' = [flights EXCEPT
                   ![op].pc = "settled",
                   ![op].notified = Append(@, [done |-> Bool(TRUE)]),
                   ![op].outcome =
                      LET finalData == finalPromise(flights[op].streamResult)
                      IN IF FinalThrows(finalData.contents, flights[op].streamCache)
                         THEN Rejected("TypeError")
                         ELSE Resolved([finalData EXCEPT
                                          !.contents =
                                             FinalContents(@, flights[op].streamCache)])]

----------------------------------------------------------------------------
(* Inputs and bounds *)

\* entries the live sessions hold together, and addData calls they have completed
MaxAdds == 2

SessionIds == {Str("s1"), Str("s2")}
IdArgs == SessionIds \cup {Undefined}

Msg(t) == Obj([parts |-> <<[text |-> Str(t)]>>, role |-> Str("user")])
Messages == {Msg("hi"), Msg("yo")}

\* tokenData of addData and tokens of replaceIndex: omitted or a TokenCount record
TokenArgs == {Undefined, Obj([count |-> Num(2)])}
\* data of replaceIndex: omitted or a message
ReplaceArgs == {Undefined, Msg("yo")}
IndexArgs == 0..MaxAdds

\* one session, addressed by its id or through the active selection
OneSession == Str("s1")
OneIdArgs == {OneSession, Undefined}

\* custom value names: a free name and a field every session holds
CustomNames == {Str("mood"), Str("model")}
CustomValues == {Null, Num(0), Num(1), Str("a")}
TokenAmounts == {Undefined, Num(5)}
\* tokenData of addData: omitted, a bare count, or a TokenCount record
CountArgs == {Undefined, Num(3), Obj([count |-> Num(2)])}
PromptArgs == {Undefined, Str("p")}

\* values handed to the scalar setters: one of the right type and wrong ones
NumberArgs == {Num(1), NaN, Infinity, Str("a")}
FlagArgs == {Bool(TRUE), Num(1)}
TextArgs == {Str("a"), Num(1)}

\* ids handed to an instance in single-session mode: its own and a foreign one
SingleIds == {Str("main"), Str("s1")}
SingleIdArgs == SingleIds \cup {Undefined}

\* parts handed to buildContents: any choice of a text, an inlineData and a key
\* of an unknown kind
TextValues == {Str("hi"), Num(1)}
InlineDataValues ==
  {Obj([mime_type |-> Str("image/png"), data |-> Str("AA==")]),
   Obj([mime_type |-> Str("image/png"), data |-> Num(1)]),
   Obj([data |-> Str("AA==")]),
   Str("AA=="),
   Null}
PartArgs ==
  {[valName \in keys |->
      CASE valName = "text" -> text
        [] valName = "inlineData" -> inlineData
        [] OTHER -> Bool(TRUE)] :
     keys \in SUBSET {"text", "inlineData", "thought"},
     text \in TextValues, inlineData \in InlineDataValues}
\* items: a list of one or two parts, or a single content, with a finish reason
ItemArgs ==
  {[parts |-> Arr(<<part>>), finishReason |-> Str("stop")] : part \in PartArgs}
  \cup {[parts |-> Arr(<<[text |-> Str("hi"), thought |-> Bool(TRUE)], part>>)] : part \in PartArgs}
  \cup {[content |-> Obj(part)] : part \in PartArgs}

\* models the catalog holds, members of categories included
MaxModels == 3

ModelIds == {Str("gemini-a"), Str("gemini-b")}
CategoryArgs == {Undefined,
                 Obj([id |-> Str("main"), displayName |-> Str("Main"), index |-> Num(0)]),
                 Obj([id |-> Str("exp"), displayName |-> Str("Experimental"), index |-> Num(1)])}
\* a model descriptor as the provider adapter hands it over
ModelArg(id, index, category) ==
  LET model == [id |-> id, name |-> Str("models/" \o id.val), index |-> index,
                supportedGenerationMethods |-> Arr(<<Str("generateContent"), Num(0)>>)]
  IN Obj(IF category = Undefined THEN model ELSE Put(model, "category", category))
ModelArgs ==
  {ModelArg(id, index, category) :
     id \in ModelIds, index \in {Num(1), Str("first")}, category \in CategoryArgs}
  \cup {Str("gemini-a")}

\* chunks one stream delivers before it ends
MaxChunks == 3

\* a result of the provider with one candidate holding one text part
TextResult(text) ==
  Obj([candidates |-> Arr(<<[content |-> Obj([role |-> Str("model"),
                                              parts |-> Arr(<<[text |-> Str(text)]>>)])]>>)])
\* a last result: two candidates, a part without text, a finish reason, a usage
LastResult ==
  Obj([candidates |->
         Arr(<<[content |-> Obj([role |-> Str("model"),
                                 parts |-> Arr(<<[text |-> Str("!"), thought |-> Bool(FALSE)],
                                                 [inlineData |->
                                                    Obj([mime_type |-> Str("image/png"),
                                                         data |-> Str("AA==")])]>>)]),
                finishReason |-> Str("stop")],
               [finishReason |-> Str("max_tokens")],
               [content |-> Obj([parts |-> Arr(<<[text |-> Str("?")]>>)])]>>),
       usageMetadata |-> Obj([totalTokenCount |-> Num(7)]),
       modelVersion |-> Str("gemini-a")])
JsonChunk(results) == [kind |-> "json", json |-> results]
Chunks ==
  {[kind |-> "malformed"], [kind |-> "short"],
   JsonChunk(<<TextResult("Hel")>>), JsonChunk(<<TextResult("lo ")>>),
   JsonChunk(<<TextResult("world")>>), JsonChunk(<<Null, TextResult("lo "), LastResult>>)}
Responses == {"ok", "noBody", "notOk", "fetchRejected"}

RECURSIVE SumOver(_, _)
SumOver(f, keys) ==
  IF keys = {} THEN 0
  ELSE LET k == CHOOSE x \in keys : TRUE IN f[k] + SumOver(f, keys \ {k})

\* the bound on addData
AddAllowed(id) ==
  SessionExists(id) =>
    /\ SumOver([i \in DOMAIN history |-> Len(history[i]["data"])], DOMAIN history) < MaxAdds
    /\ SumOver([i \in DOMAIN issued |-> Len(issued[i])], DOMAIN issued) < MaxAdds
    /\ NewId(getData(id)).val <= MaxAdds

----------------------------------------------------------------------------
(* Specifications *)

Init ==
  /\ isSingle = FALSE
  /\ history = EmptyMap
  /\ selectedHistory = Null
  /\ sysEventsUsed = FALSE
  /\ emitted = <<>>
  /\ sysEmitted = <<>>
  /\ lastCall = "constructor"
  /\ ret = Undefined
  /\ input = Undefined
  /\ issued = EmptyMap
  /\ observed = Undefined
  /\ models = <<>>
  /\ pc = "idle"
  /\ countData = 0
  /\ streamCache = <<>>
  /\ streamResult = EmptyMap
  /\ received = <<>>
  /\ notified = <<>>
  /\ outcome = Undefined
  /\ settledAt = 0
  /\ flights = NoFlights

StoreOnly == UNCHANGED <<isSingle, models, streamVars, flights>>

StartDataId ==
  /\ \E id \in SessionIds, selected \in BOOLEAN : startDataId(id, selected)
  /\ StoreOnly
StopDataId ==
  /\ \E id \in SessionIds : stopDataId(id)
  /\ StoreOnly
SelectDataId ==
  /\ \E id \in SessionIds \cup {Null} : selectDataId(id)
  /\ StoreOnly
AddData ==
  /\ \E data \in Messages, tokenData \in TokenArgs, id \in IdArgs :
       AddAllowed(id) /\ addData(data, tokenData, id)
  /\ StoreOnly
DeleteIndex ==
  /\ \E index \in IndexArgs, id \in IdArgs : deleteIndex(index, id)
  /\ StoreOnly
ReplaceIndex ==
  /\ \E index \in IndexArgs, data \in ReplaceArgs, tokens \in TokenArgs, id \in IdArgs :
       replaceIndex(index, data, tokens, id)
  /\ StoreOnly

\* the message history of two sessions
Next ==
  \/ StartDataId
  \/ StopDataId
  \/ SelectDataId
  \/ AddData
  \/ DeleteIndex
  \/ ReplaceIndex

Spec == Init /\ [][Next]_vars

----------------------------------------------------------------------------
(* Specifications of single sessions *)

CustomStart ==
  /\ \E selected \in BOOLEAN : startDataId(OneSession, selected)
  /\ StoreOnly
SetCustomValue ==
  /\ \E name \in CustomNames, value \in CustomValues, tokenAmount \in TokenAmounts,
        id \in OneIdArgs :
       setCustomValue(name, value, tokenAmount, id)
  /\ StoreOnly
ResetCustomValue ==
  /\ \E name \in CustomNames, id \in OneIdArgs : resetCustomValue(name, id)
  /\ StoreOnly
EraseCustomValue ==
  /\ \E name \in CustomNames, id \in OneIdArgs : eraseCustomValue(name, id)
  /\ StoreOnly

\* one session and its custom values
NextCustom ==
  \/ CustomStart
  \/ SetCustomValue
  \/ ResetCustomValue
  \/ EraseCustomValue

SpecCustom == Init /\ [][NextCustom]_vars

RepStart ==
  /\ \E selected \in BOOLEAN : startDataId(OneSession, selected)
  /\ StoreOnly
RepAdd ==
  /\ \E data \in Messages, tokenData \in TokenArgs :
       AddAllowed(OneSession) /\ addData(data, tokenData, OneSession)
  /\ StoreOnly
RepReplace ==
  /\ \E index \in IndexArgs, data \in ReplaceArgs, tokens \in TokenArgs, id \in IdArgs :
       replaceIndex(index, data, tokens, id)
  /\ StoreOnly

\* one session whose entries are replaced
NextReplace ==
  \/ RepStart
  \/ RepAdd
  \/ RepReplace

SpecReplace == Init /\ [][NextReplace]_vars

\* the state the constructor leaves with isSingle = true: startDataId('main', true)
\* has run, and the three lifecycle methods are set to null
InitSingle ==
  /\ isSingle = TRUE
  /\ history = Put(EmptyMap, Str("main"), NewSession)
  /\ selectedHistory = Str("main")
  /\ sysEventsUsed = FALSE
  /\ emitted = <<Ev("selectDataId", <<Str("main")>>),
                 Ev("startDataId", <<Str("main"), Bool(TRUE)>>)>>
  /\ sysEmitted = <<>>
  /\ lastCall = "constructor"
  /\ ret = Undefined
  /\ input = Undefined
  /\ issued = Put(EmptyMap, Str("main"), <<>>)
  /\ observed = [history |-> Put(EmptyMap, Str("main"), NewSession),
                 selectedHistory |-> Str("main")]
  /\ models = <<>>
  /\ pc = "idle"
  /\ countData = 0
  /\ streamCache = <<>>
  /\ streamResult = EmptyMap
  /\ received = <<>>
  /\ notified = <<>>
  /\ outcome = Undefined
  /\ settledAt = 0
  /\ flights = NoFlights

SingleStart ==
  /\ \E id \in SingleIds, selected \in BOOLEAN : startDataId(id, selected)
  /\ StoreOnly
SingleStop ==
  /\ \E id \in SingleIds : stopDataId(id)
  /\ StoreOnly
SingleSelect ==
  /\ \E id \in SingleIds \cup {Null} : selectDataId(id)
  /\ StoreOnly
SingleAdd ==
  /\ \E data \in Messages, id \in SingleIdArgs : AddAllowed(id) /\ addData(data, Undefined, id)
  /\ StoreOnly
SingleDelete ==
  /\ \E index \in IndexArgs, id \in SingleIdArgs : deleteIndex(index, id)
  /\ StoreOnly
SingleSetPrompt ==
  /\ \E promptData \in PromptArgs, id \in SingleIdArgs : setPrompt(promptData, Undefined, id)
  /\ StoreOnly
SingleSetTemperature ==
  /\ \E id \in SingleIdArgs : setTemperature(Num(1), id)
  /\ StoreOnly
SingleDestroy ==
  /\ destroy
  /\ StoreOnly

\* an instance in single-session mode
NextSingle ==
  \/ SingleStart
  \/ SingleStop
  \/ SingleSelect
  \/ SingleAdd
  \/ SingleDelete
  \/ SingleSetPrompt
  \/ SingleSetTemperature
  \/ SingleDestroy

SpecSingle == InitSingle /\ [][NextSingle]_vars

BuildContents ==
  /\ \E item \in ItemArgs, role \in {Null, Str("user")}, rmFinishReason \in BOOLEAN :
       buildContentsCall(item, role, rmFinishReason)
  /\ StoreOnly

\* messages built from the parts a caller or a provider hands over
NextContents ==
  \/ BuildContents

SpecContents == Init /\ [][NextContents]_vars

FlightsOnly == UNCHANGED <<storeVars, models, streamVars>>

RaceStart ==
  /\ OneSession \notin DOMAIN history
  /\ \E selected \in BOOLEAN : startDataId(OneSession, selected)
  /\ StoreOnly
\* a generation asked for the session that exists
RaceGenContent ==
  /\ OneSession \in DOMAIN history
  /\ \E op \in Ops : flightStart(op)
  /\ FlightsOnly
RaceChunk ==
  /\ \E op \in Ops :
       /\ Len(flights[op].received) < MaxChunks
       /\ flightChunk(op, JsonChunk(<<TextResult(op)>>))
  /\ FlightsOnly
RaceDone ==
  /\ \E op \in Ops : flightDone(op)
  /\ FlightsOnly
\* the caller's handler of a resolved generation: it appends to the session
RaceAdd ==
  /\ \E op \in Ops :
       /\ flights[op].pc = "settled"
       /\ flights[op].got = Undefined
       /\ addData(Msg(op), Undefined, OneSession)
       /\ flights' = [flights EXCEPT ![op].got = ret']
  /\ UNCHANGED <<isSingle, models, streamVars>>

\* two generations in flight for one session, each appending when it completes
NextRace ==
  \/ RaceStart
  \/ RaceGenContent
  \/ RaceChunk
  \/ RaceDone
  \/ RaceAdd

SpecRace == Init /\ [][NextRace]_vars

\* the fields startDataId gives a session, a scalar a setter writes, a free name
FieldNames ==
  {Str("data"), Str("ids"), Str("tokens"), Str("hash"), Str("model"),
   Str("systemInstruction"), Str("temperature"), Str("mood")}

\* values other than null, of two types
GivenValues == {Str("a"), Num(1)}

CollideStart ==
  /\ \E selected \in BOOLEAN : startDataId(OneSession, selected)
  /\ StoreOnly
CollideSetTemperature ==
  /\ \E id \in OneIdArgs : setTemperature(Num(1), id)
  /\ StoreOnly
CollideSet ==
  /\ \E name \in FieldNames, value \in GivenValues :
       setCustomValue(name, value, Num(5), OneSession)
  /\ StoreOnly

\* custom values asked for under the names of fields the session holds
NextCollide ==
  \/ CollideStart
  \/ CollideSetTemperature
  \/ CollideSet

SpecCollide == Init /\ [][NextCollide]_vars

\* names given to setCustomValue and resetCustomValue: no string, the empty
\* string, the reserved name and two free names
NameArgs == {Undefined, Null, Num(1), Str(""), Str("customList"), Str("mood"), Str("tone")}

\* the session of the specification, one never started, and no id
TargetArgs == {OneSession, Str("s2"), Undefined}

NamesStart ==
  /\ \E selected \in BOOLEAN : startDataId(OneSession, selected)
  /\ StoreOnly
NamesStop ==
  /\ stopDataId(OneSession)
  /\ StoreOnly
NamesSet ==
  /\ \E name \in NameArgs, value \in {Null, Str("a")}, tokenAmount \in TokenAmounts,
        id \in TargetArgs :
       setCustomValue(name, value, tokenAmount, id)
  /\ StoreOnly
NamesReset ==
  /\ \E name \in NameArgs, id \in TargetArgs : resetCustomValue(name, id)
  /\ StoreOnly

\* custom values asked for under bad names and in missing sessions
NextNames ==
  \/ NamesStart
  \/ NamesStop
  \/ NamesSet
  \/ NamesReset

SpecNames == Init /\ [][NextNames]_vars

\* three names free to be registered, so that a descriptor can leave the
\* middle of customList
FreeNames == {Str("mood"), Str("tone"), Str("lang")}

EraseStart ==
  /\ \E selected \in BOOLEAN : startDataId(OneSession, selected)
  /\ StoreOnly
EraseSet ==
  /\ \E name \in FreeNames, id \in OneIdArgs : setCustomValue(name, Str("a"), Num(5), id)
  /\ StoreOnly
EraseReset ==
  /\ \E name \in FreeNames, id \in OneIdArgs : resetCustomValue(name, id)
  /\ StoreOnly
EraseErase ==
  /\ \E name \in FreeNames, id \in OneIdArgs : eraseCustomValue(name, id)
  /\ StoreOnly

\* one session and three custom values registered, reset and erased
NextErase ==
  \/ EraseStart
  \/ EraseSet
  \/ EraseReset
  \/ EraseErase

SpecErase == Init /\ [][NextErase]_vars

\* the positions replaced: the first message, and one past a short session
FirstIndexes == {0, 1}

TwoStart ==
  /\ \E id \in SessionIds, selected \in BOOLEAN : startDataId(id, selected)
  /\ StoreOnly
TwoAdd ==
  /\ \E id \in SessionIds : AddAllowed(id) /\ addData(Msg("hi"), Undefined, id)
  /\ StoreOnly
TwoReplace ==
  /\ \E index \in FirstIndexes, id \in SessionIds : replaceIndex(index, Msg("yo"), Undefined, id)
  /\ StoreOnly
TwoDelete ==
  /\ \E index \in IndexArgs, id \in SessionIds : deleteIndex(index, id)
  /\ StoreOnly
TwoSetTemperature ==
  /\ \E id \in SessionIds : setTemperature(Num(1), id)
  /\ StoreOnly
TwoSetCustomValue ==
  /\ \E id \in SessionIds : setCustomValue(Str("mood"), Str("a"), Undefined, id)
  /\ StoreOnly

\* two sessions, each worked on by calls that name it
NextTwo ==
  \/ TwoStart
  \/ TwoAdd
  \/ TwoReplace
  \/ TwoDelete
  \/ TwoSetTemperature
  \/ TwoSetCustomValue

SpecTwo == Init /\ [][NextTwo]_vars

HashStart ==
  /\ startDataId(OneSession, TRUE)
  /\ StoreOnly
HashAdd ==
  /\ \E data \in Messages : AddAllowed(OneSession) /\ addData(data, Undefined, OneSession)
  /\ StoreOnly
HashReplace ==
  /\ \E index \in IndexArgs, data \in ReplaceArgs :
       replaceIndex(index, data, Undefined, OneSession)
  /\ StoreOnly
HashDelete ==
  /\ \E index \in IndexArgs : deleteIndex(index, OneSession)
  /\ StoreOnly
HashSetPrompt ==
  /\ \E promptData \in {Str("p"), Str("q")} : setPrompt(promptData, Undefined, OneSession)
  /\ StoreOnly
HashSetCustomValue ==
  /\ \E name \in {Str("mood"), Str("temperature")}, value \in {Null, Str("a")} :
       setCustomValue(name, value, Undefined, OneSession)
  /\ StoreOnly
HashResetCustomValue ==
  /\ \E name \in {Str("mood"), Str("temperature")} : resetCustomValue(name, OneSession)
  /\ StoreOnly
HashSetTemperature ==
  /\ \E value \in {Num(1), Str("a")} : setTemperature(value, OneSession)
  /\ StoreOnly

\* one session and everything that carries a hash
NextHashes ==
  \/ HashStart
  \/ HashAdd
  \/ HashReplace
  \/ HashDelete
  \/ HashSetPrompt
  \/ HashSetCustomValue
  \/ HashResetCustomValue
  \/ HashSetTemperature

SpecHashes == Init /\ [][NextHashes]_vars

IdsStart ==
  /\ startDataId(OneSession, TRUE)
  /\ StoreOnly
IdsAdd ==
  /\ \E data \in Messages : AddAllowed(Undefined) /\ addData(data, Undefined, Undefined)
  /\ StoreOnly
IdsDelete ==
  /\ \E index \in IndexArgs : deleteIndex(index, Undefined)
  /\ StoreOnly
IdsSetCustomValue ==
  /\ \E value \in {Null, Num(0), Str("a")} :
       setCustomValue(Str("nextId"), value, Undefined, Undefined)
  /\ StoreOnly
IdsResetCustomValue ==
  /\ resetCustomValue(Str("nextId"), Undefined)
  /\ StoreOnly
IdsEraseCustomValue ==
  /\ eraseCustomValue(Str("nextId"), Undefined)
  /\ StoreOnly

\* one session, its message history and a custom value named nextId
NextIds ==
  \/ IdsStart
  \/ IdsAdd
  \/ IdsDelete
  \/ IdsSetCustomValue
  \/ IdsResetCustomValue
  \/ IdsEraseCustomValue

SpecIds == Init /\ [][NextIds]_vars

TokStart ==
  /\ startDataId(OneSession, TRUE)
  /\ StoreOnly
TokAdd ==
  /\ \E tokenData \in CountArgs, id \in OneIdArgs :
       AddAllowed(id) /\ addData(Msg("hi"), tokenData, id)
  /\ StoreOnly
TokDelete ==
  /\ \E index \in IndexArgs : deleteIndex(index, OneSession)
  /\ StoreOnly
TokReplace ==
  /\ \E index \in IndexArgs : replaceIndex(index, Undefined, Obj([count |-> Num(4)]), OneSession)
  /\ StoreOnly
TokSetPrompt ==
  /\ \E promptData \in PromptArgs, tokenAmount \in TokenAmounts :
       setPrompt(promptData, tokenAmount, OneSession)
  /\ StoreOnly
TokSetCustomValue ==
  /\ \E name \in {Str("mood"), Str("data")}, value \in {Null, Str("a")},
        tokenAmount \in TokenAmounts :
       setCustomValue(name, value, tokenAmount, OneSession)
  /\ StoreOnly
TokResetCustomValue ==
  /\ resetCustomValue(Str("mood"), OneSession)
  /\ StoreOnly

\* one session and everything that carries a token count
NextTokens ==
  \/ TokStart
  \/ TokAdd
  \/ TokDelete
  \/ TokReplace
  \/ TokSetPrompt
  \/ TokSetCustomValue
  \/ TokResetCustomValue

SpecTokens == Init /\ [][NextTokens]_vars

\* the number of models in the catalog, members of categories included
RECURSIVE ModelCountFrom(_, _)
ModelCountFrom(list, k) ==
  IF k > Len(list) THEN 0
  ELSE (IF "data" \in DOMAIN list[k] THEN Len(list[k]["data"]) ELSE 1)
       + ModelCountFrom(list, k + 1)

InsertNewModel ==
  /\ ModelCountFrom(models, 1) < MaxModels
  /\ \E model \in ModelArgs : _insertNewModel(model)
  /\ UNCHANGED <<isSingle, streamVars, flights>>

SysStart ==
  /\ \E selected \in BOOLEAN : startDataId(OneSession, selected)
  /\ StoreOnly
SysStop ==
  /\ stopDataId(OneSession)
  /\ StoreOnly
SysSelect ==
  /\ \E id \in {OneSession, Null} : selectDataId(id)
  /\ StoreOnly
SysAdd ==
  /\ \E data \in Messages, id \in OneIdArgs : AddAllowed(id) /\ addData(data, Undefined, id)
  /\ StoreOnly
SysDestroy ==
  /\ destroy
  /\ StoreOnly
SysGetSysEvents ==
  /\ getSysEvents
  /\ StoreOnly
\* an event injected from outside, under the name of a store event or another
SysEmit ==
  /\ \E event \in {"addData", "hello"}, heard \in BOOLEAN :
       emit(event, <<Num(7)>>, heard)
  /\ StoreOnly

\* one session, the end of the instance and the internal event channel
NextSysEvents ==
  \/ SysStart
  \/ SysStop
  \/ SysSelect
  \/ SysAdd
  \/ SysDestroy
  \/ SysGetSysEvents
  \/ SysEmit

SpecSysEvents == Init /\ [][NextSysEvents]_vars

ScStart ==
  /\ \E selected \in BOOLEAN : startDataId(OneSession, selected)
  /\ StoreOnly
ScSetMaxOutputTokens ==
  /\ \E value \in NumberArgs, id \in OneIdArgs : setMaxOutputTokens(value, id)
  /\ StoreOnly
ScSetTemperature ==
  /\ \E value \in NumberArgs, id \in OneIdArgs : setTemperature(value, id)
  /\ StoreOnly
ScSetTopP ==
  /\ \E value \in NumberArgs, id \in OneIdArgs : setTopP(value, id)
  /\ StoreOnly
ScSetTopK ==
  /\ \E value \in NumberArgs, id \in OneIdArgs : setTopK(value, id)
  /\ StoreOnly
ScSetPresencePenalty ==
  /\ \E value \in NumberArgs, id \in OneIdArgs : setPresencePenalty(value, id)
  /\ StoreOnly
ScSetFrequencyPenalty ==
  /\ \E value \in NumberArgs, id \in OneIdArgs : setFrequencyPenalty(value, id)
  /\ StoreOnly
ScSetEnabledEnchancedCivicAnswers ==
  /\ \E value \in FlagArgs, id \in OneIdArgs : setEnabledEnchancedCivicAnswers(value, id)
  /\ StoreOnly
ScSetModel ==
  /\ \E data \in TextArgs, id \in OneIdArgs : setModel(data, id)
  /\ StoreOnly

\* one session and its generation parameters
NextScalars ==
  \/ ScStart
  \/ ScSetMaxOutputTokens
  \/ ScSetTemperature
  \/ ScSetTopP
  \/ ScSetTopK
  \/ ScSetPresencePenalty
  \/ ScSetFrequencyPenalty
  \/ ScSetEnabledEnchancedCivicAnswers
  \/ ScSetModel

SpecScalars == Init /\ [][NextScalars]_vars

TxStart ==
  /\ \E selected \in BOOLEAN : startDataId(OneSession, selected)
  /\ StoreOnly
TxSetModel ==
  /\ \E data \in TextArgs, id \in OneIdArgs : setModel(data, id)
  /\ StoreOnly
TxSetPrompt ==
  /\ \E promptData \in TextArgs, tokenAmount \in TokenAmounts, id \in OneIdArgs :
       setPrompt(promptData, tokenAmount, id)
  /\ StoreOnly
TxSetFirstDialogue ==
  /\ \E dialogue \in TextArgs, tokenAmount \in TokenAmounts, id \in OneIdArgs :
       setFirstDialogue(dialogue, tokenAmount, id)
  /\ StoreOnly
TxSetSystemInstruction ==
  /\ \E data \in TextArgs, tokenAmount \in TokenAmounts, id \in OneIdArgs :
       setSystemInstruction(data, tokenAmount, id)
  /\ StoreOnly
TxSetTopK ==
  /\ \E value \in NumberArgs, id \in OneIdArgs : setTopK(value, id)
  /\ StoreOnly
TxSetEnabledEnchancedCivicAnswers ==
  /\ \E value \in FlagArgs, id \in OneIdArgs : setEnabledEnchancedCivicAnswers(value, id)
  /\ StoreOnly

\* one session, its text settings and one setting of each other kind
NextTexts ==
  \/ TxStart
  \/ TxSetTopK
  \/ TxSetEnabledEnchancedCivicAnswers
  \/ TxSetModel
  \/ TxSetPrompt
  \/ TxSetFirstDialogue
  \/ TxSetSystemInstruction

SpecTexts == Init /\ [][NextTexts]_vars

\* the model catalog
NextModels ==
  \/ InsertNewModel

SpecModels == Init /\ [][NextModels]_vars

StreamOnly == UNCHANGED <<storeVars, models, flights>>

GenContent ==
  /\ \E response \in Responses : genContent(response)
  /\ StreamOnly
ReadChunk ==
  /\ countData < MaxChunks
  /\ \E chunk \in Chunks : readChunk(chunk)
  /\ StreamOnly
ReadDone ==
  /\ readDone
  /\ StreamOnly
ReadFails ==
  /\ readFails
  /\ StreamOnly

\* one streaming generation after another
NextStream ==
  \/ GenContent
  \/ ReadChunk
  \/ ReadDone
  \/ ReadFails

SpecStream == Init /\ [][NextStream]_vars

----------------------------------------------------------------------------
(* Claims on the message history *)

\* the four parallel sequences of a session
Messages4(session) ==
  <<session["data"], session["ids"], session["tokens"]["data"].val, session["hash"]["data"].val>>

\* C1: after any sequence of addData, deleteIndex and replaceIndex calls on a
\* session, successful or not, data, ids, tokens.data and hash.data have the
\* same length.
C1_ParallelLengths ==
  \A sid \in DOMAIN history :
    /\ history[sid]["tokens"]["data"].type = "array"
    /\ history[sid]["hash"]["data"].type = "array"
    /\ \A k \in 1..4 : Len(Messages4(history[sid])[k]) = Len(history[sid]["data"])

\* an entry was added twice, one was deleted and the survivor replaced
C1_Witness ==
  /\ lastCall = "replaceIndex"
  /\ ret = Bool(TRUE)
  /\ \E sid \in DOMAIN history :
       /\ Len(issued[sid]) = 2
       /\ Len(history[sid]["data"]) = 1

\* C3: deleteIndex(i) on an existing position removes exactly the entry at i from
\* the four sequences: entries after i move down one position with their message,
\* identifier, token record and hash, entries before i stay, and getIdByIndex of
\* each survivor returns its original identifier.
C3_DeleteShifts ==
  [][\A index \in IndexArgs, sid \in SessionIds :
       ( /\ lastCall' = "deleteIndex"
         /\ ret' = Bool(TRUE)
         /\ emitted'[1].args[1] = index
         /\ emitted'[1].args[3] = sid )
       => /\ sid \in DOMAIN history /\ sid \in DOMAIN history'
          /\ index < Len(history[sid]["data"])
          /\ \A k \in 1..4 :
               LET old == Messages4(history[sid])[k]
                   new == Messages4(history'[sid])[k]
               IN /\ Len(new) = Len(old) - 1
                  /\ \A j \in 0..(Len(old) - 1) :
                       /\ j < index => At(new, j) = At(old, j)
                       /\ j > index => At(new, j - 1) = At(old, j)
          /\ \A j \in 0..(Len(history[sid]["ids"]) - 1) :
               /\ j < index => getIdByIndex(j, sid)' = At(history[sid]["ids"], j)
               /\ j > index => getIdByIndex(j - 1, sid)' = At(history[sid]["ids"], j)
    ]_vars

\* the first of two entries was deleted and the second moved down
C3_Witness ==
  /\ lastCall = "deleteIndex"
  /\ ret = Bool(TRUE)
  /\ emitted[1].args[1] = 0
  /\ Len(history[emitted[1].args[3]]["data"]) = 1
  /\ history[emitted[1].args[3]]["ids"] = <<Num(1)>>

\* C2: within one session every identifier addData returns is greater than every
\* identifier it returned before, so ids holds no duplicate and a deleted
\* identifier is never assigned again.
C2_IdsNeverReused ==
  \A sid \in DOMAIN issued :
    /\ \A i, j \in 1..Len(issued[sid]) : i < j => issued[sid][i].val < issued[sid][j].val
    /\ sid \in DOMAIN history =>
         \A i, j \in 1..Len(history[sid]["ids"]) :
           i < j => history[sid]["ids"][i] # history[sid]["ids"][j]

----------------------------------------------------------------------------
(* Claims on custom values *)

\* the descriptor customList holds for a name, or Undefined
Descriptor(session, key) == Find(WithCustomList(session)["customList"], key)

\* what a later setCustomValue on a registered name must do
TypeConflictRule(name, value, id) ==
  LET sid == getId(id)
      old == history[sid]
      new == history'[sid]
  IN IF objType(value) # Descriptor(old, name.val).type
     THEN /\ ret'.type = "throw"
          /\ new = old
          /\ emitted' = <<>>
     ELSE /\ ret' = Undefined
          /\ new[name.val] = value
          /\ new["hash"][name.val] = objHash(value)
          /\ new["customList"] = old["customList"]

C5_ResetKeepsDescriptor ==
  [][\A name \in CustomNames :
       /\ \A id \in OneIdArgs :
            (CanReset(name, id) /\ resetCustomValue(name, id))
            => /\ ret' = Undefined
               /\ getCustomValue(name.val, getId(id))' = Null
               /\ name.val \notin DOMAIN history'[getId(id)]["tokens"]
               /\ name.val \notin DOMAIN history'[getId(id)]["hash"]
               /\ Descriptor(history'[getId(id)], name.val)
                    = Descriptor(history[getId(id)], name.val)
       /\ \A sid \in DOMAIN history :
            ( /\ Descriptor(history[sid], name.val) # Undefined
              /\ lastCall' \notin {"startDataId", "stopDataId"}
              /\ ~( /\ lastCall' = "eraseCustomValue"
                    /\ emitted' # <<>>
                    /\ emitted'[1].event = "set" \o capitalizeFirstLetter(name.val) ) )
            => /\ sid \in DOMAIN history'
               /\ Descriptor(history'[sid], name.val) = Descriptor(history[sid], name.val)
    ]_vars

\* after a reset the name is still registered as a number: a string is refused
C5_Witness ==
  /\ lastCall = "setCustomValue"
  /\ ret = Error("Invalid custom value type!")
  /\ OneSession \in DOMAIN history
  /\ Descriptor(history[OneSession], "mood") = [name |-> "mood", type |-> "number"]
  /\ "mood" \in DOMAIN history[OneSession]
  /\ history[OneSession]["mood"] = Null
  /\ "mood" \notin DOMAIN history[OneSession]["hash"]

----------------------------------------------------------------------------
(* Claims on token totals *)

\* the numeric counts of the per-message token records of a session
MessageTokenTotal(session) ==
  LET data == session["tokens"]["data"]
      counted == IF data.type = "array"
                 THEN {k \in 1..Len(data.val) : CountOf(data.val[k]).type = "number"}
                 ELSE {}
  IN SumOver([k \in counted |-> CountOf(data.val[k]).val], counted)

\* the numeric scalar token entries of a session
ScalarTokenTotal(session) ==
  LET scalars == {k \in DOMAIN session["tokens"] : session["tokens"][k].type = "number"}
  IN SumOver([k \in scalars |-> session["tokens"][k].val], scalars)

----------------------------------------------------------------------------
(* Claims on the model catalog *)

\* the ids of the models of the catalog, members of categories included, in order
RECURSIVE CatalogIdsFrom(_, _)
CatalogIdsFrom(list, k) ==
  IF k > Len(list) THEN <<>>
  ELSE (IF "data" \in DOMAIN list[k]
        THEN [n \in 1..Len(list[k]["data"]) |-> list[k]["data"][n]["id"]]
        ELSE <<list[k]["id"]>>)
       \o CatalogIdsFrom(list, k + 1)

\* C6: no model id ever occurs twice in the catalog, whether the model is in the
\* top-level list or in the member list of a category.
C6_NoDuplicateId ==
  \A i, j \in 1..Len(CatalogIdsFrom(models, 1)) :
    i # j => CatalogIdsFrom(models, 1)[i] # CatalogIdsFrom(models, 1)[j]

----------------------------------------------------------------------------
(* Claims on streaming generation *)

\* the result objects of the chunks that parsed, in arrival order
RECURSIVE FragmentsFrom(_, _)
FragmentsFrom(chunks, k) ==
  IF k > Len(chunks) THEN <<>>
  ELSE (IF chunks[k].kind = "json"
        THEN SelectSeq(chunks[k].json, LAMBDA result : result # Null)
        ELSE <<>>)
       \o FragmentsFrom(chunks, k + 1)

\* the text a fragment holds for a (content-index, part-index) pair, "" if none
FragmentText(result, index, index2) ==
  LET contents == buildContent(result.val, <<>>)
  IN IF /\ index < Len(contents)
        /\ index2 < Len(contents[index + 1]["parts"])
        /\ Get(contents[index + 1]["parts"][index2 + 1], "text").type = "string"
     THEN contents[index + 1]["parts"][index2 + 1]["text"].val
     ELSE ""

\* the texts of the first k fragments for a pair, concatenated in arrival order
RECURSIVE Concatenated(_, _, _, _)
Concatenated(fragments, k, index, index2) ==
  IF k = 0 THEN ""
  ELSE Concatenated(fragments, k - 1, index, index2)
       \o FragmentText(fragments[k], index, index2)

\* the (content-index, part-index) pairs, 1-based, of the texts of some contents
TextPairs(contents) ==
  {pair \in UNION {{<<index, index2>> : index2 \in 1..Len(contents[index]["parts"])} :
                      index \in 1..Len(contents)} :
     Get(contents[pair[1]]["parts"][pair[2]], "text").type = "string"}

\* C7: the k-th notification with done = false carries, for every pair with text
\* in the k-th parsed fragment, the concatenation in arrival order of the texts
\* of the parsed fragments received so far for that pair.
C7_CumulativeNotifications ==
  LET fragments == FragmentsFrom(received, 1)
      notes == SelectSeq(notified, LAMBDA note : note["done"] = Bool(FALSE))
  IN /\ Len(notes) = Len(fragments)
     /\ \A k \in 1..Len(notes) :
          LET built == buildContent(fragments[k].val, <<>>)
          IN /\ Len(notes[k]["contents"]) = Len(built)
             /\ \A pair \in TextPairs(built) :
                  notes[k]["contents"][pair[1]]["parts"][pair[2]]["text"]
                    = Str(Concatenated(fragments, k, pair[1] - 1, pair[2] - 1))

\* "Hel", "lo " and "world" were notified as "Hel", "Hello " and "Hello world"
C7_Witness ==
  /\ received = <<JsonChunk(<<TextResult("Hel")>>), JsonChunk(<<TextResult("lo ")>>),
                  JsonChunk(<<TextResult("world")>>)>>
  /\ Len(notified) = 3
  /\ notified[1]["contents"][1]["parts"][1]["text"] = Str("Hel")
  /\ notified[2]["contents"][1]["parts"][1]["text"] = Str("Hello ")
  /\ notified[3]["contents"][1]["parts"][1]["text"] = Str("Hello world")

\* C8: when a stream ends, every text part of the resolved final result holds the
\* string that concatenates the texts of all parsed fragments for its pair.
C8_FinalTextIsString ==
  ("status" \in DOMAIN outcome /\ outcome.status = "resolved")
  => LET fragments == FragmentsFrom(received, 1)
         built == buildContent(streamResult, <<>>)
     IN \A pair \in TextPairs(built) :
          outcome.value.contents[pair[1]]["parts"][pair[2]]["text"]
            = Str(Concatenated(fragments, Len(fragments), pair[1] - 1, pair[2] - 1))

\* every snapshot holds the texts of the parsed fragments for its pair, and no other
SnapshotsOfParsed ==
  LET fragments == FragmentsFrom(received, 1)
  IN /\ \A index \in 1..Len(streamCache) :
          streamCache[index].type = "array"
          => \A index2 \in 1..Len(streamCache[index].val) :
               Truthy(streamCache[index].val[index2])
               => streamCache[index].val[index2].val["text"]
                    = Str(Concatenated(fragments, Len(fragments), index - 1, index2 - 1))
     /\ \A k \in 1..Len(fragments) :
          \A pair \in TextPairs(buildContent(fragments[k].val, <<>>)) :
            Truthy(At(At(streamCache, pair[1] - 1).val, pair[2] - 1))

\* C9: a fragment that fails repair or parsing emits no notification, changes no
\* snapshot and does not end the stream; the snapshots always hold the
\* concatenation of the texts of the parsed fragments only.
C9_MalformedSkipped ==
  [][/\ ( /\ Len(received') = Len(received) + 1
          /\ received'[Len(received')].kind = "malformed" )
        => /\ notified' = notified
           /\ streamCache' = streamCache
           /\ streamResult' = streamResult
           /\ pc' = "reading"
           /\ outcome' = outcome
     /\ SnapshotsOfParsed'
    ]_vars

\* a malformed chunk came between "Hel" and "lo ", and the snapshot is "Hello "
C9_Witness ==
  /\ received = <<JsonChunk(<<TextResult("Hel")>>), [kind |-> "malformed"],
                  JsonChunk(<<TextResult("lo ")>>)>>
  /\ pc = "reading"
  /\ Len(notified) = 2
  /\ streamCache[1].val[1].val["text"] = Str("Hello ")

----------------------------------------------------------------------------
(* Claims on calls that name no session *)

\* C11: addData on a session that does not exist (an unknown id, or no id and no
\* active selection) throws, creates no session, changes no session and emits
\* no event.
C11_AddDataNoSession ==
  [][lastCall' = "addData" =>
     \A data \in Messages, tokenData \in TokenArgs, id \in IdArgs :
       (~SessionExists(id) /\ addData(data, tokenData, id))
       => /\ ret' = Thrown
          /\ history' = history
          /\ selectedHistory' = selectedHistory
          /\ emitted' = <<>>
          /\ sysEmitted' = <<>>
    ]_vars

\* addData named the unknown session s2 while s1 was selected, and threw
C11_Witness ==
  /\ lastCall = "addData"
  /\ ret = Thrown
  /\ emitted = <<>>
  /\ selectedHistory = Str("s1")
  /\ DOMAIN history = {Str("s1")}
  /\ Len(history[Str("s1")]["data"]) = 1

----------------------------------------------------------------------------
(* Claims on replaceIndex *)

\* what a sequence becomes when position index is given the value v, if any is given
Overwritten(old, new, index, given, v) ==
  /\ Len(new) = Len(old)
  /\ \A j \in 0..(Len(old) - 1) :
       At(new, j) = IF j = index /\ given THEN v ELSE At(old, j)

\* a call replaceIndex can serve: the position exists and something is given
Replaceable(index, data, tokens, id) ==
  /\ SessionExists(id)
  /\ index < Len(getData(id)["data"])
  /\ (data # Undefined \/ tokens # Undefined)

\* C12: replaceIndex returns false and changes nothing when the position is absent
\* or neither a message nor tokens is given; otherwise it returns true, overwrites
\* only what was given at that position, writes the hash of the message there only
\* when a message is given, and changes no identifier.
C12_ReplaceFrame ==
  [][lastCall' = "replaceIndex" =>
     IF ret' = Bool(FALSE)
     THEN /\ history' = history
          /\ emitted' = <<>>
          /\ \A index \in IndexArgs, data \in ReplaceArgs, tokens \in TokenArgs, id \in IdArgs :
               Replaceable(index, data, tokens, id) => ~replaceIndex(index, data, tokens, id)
     ELSE /\ ret' = Bool(TRUE)
          /\ \A index \in IndexArgs, data \in ReplaceArgs, tokens \in TokenArgs, id \in IdArgs :
               ( /\ emitted'[1].args[1] = index
                 /\ emitted'[1].args[2] = data
                 /\ emitted'[1].args[3] = tokens
                 /\ replaceIndex(index, data, tokens, id) )
               => LET old == history[getId(id)]
                      new == history'[getId(id)]
                  IN /\ Replaceable(index, data, tokens, id)
                     /\ DOMAIN history' = DOMAIN history
                     /\ \A sid \in DOMAIN history :
                          sid # getId(id) => history'[sid] = history[sid]
                     /\ new["ids"] = old["ids"]
                     /\ Overwritten(old["data"], new["data"], index, data # Undefined, data)
                     /\ Overwritten(old["hash"]["data"].val, new["hash"]["data"].val, index,
                                    data # Undefined, objHash(data))
                     /\ Overwritten(old["tokens"]["data"].val, new["tokens"]["data"].val,
                                    index, tokens # Undefined, tokens)
                     /\ \A k \in DOMAIN old \ {"data", "hash", "tokens"} : new[k] = old[k]
    ]_vars

\* a replace with tokens only: the token record is new, the message hash is not
C12_Witness ==
  /\ lastCall = "replaceIndex"
  /\ ret = Bool(TRUE)
  /\ emitted[1].args[2] = Undefined
  /\ emitted[1].args[3] = Obj([count |-> Num(2)])
  /\ emitted[1].args[4] = Null
  /\ LET session == history[emitted[1].args[5]]
     IN /\ At(session["tokens"]["data"].val, emitted[1].args[1]) = Obj([count |-> Num(2)])
        /\ At(session["hash"]["data"].val, emitted[1].args[1])
             = objHash(At(session["data"], emitted[1].args[1]))

----------------------------------------------------------------------------
(* Claims on the session lifecycle *)

\* C13: stopDataId(id) returns true exactly when a session with that id existed;
\* afterwards that session is absent, the selection is null if it was id and
\* unchanged otherwise, and the other sessions are unchanged; when no such
\* session exists it returns false and changes nothing.
C13_StopDataId ==
  [][lastCall' = "stopDataId" =>
     IF ret' = Bool(FALSE)
     THEN /\ history' = history
          /\ selectedHistory' = selectedHistory
          /\ emitted' = <<>>
          /\ \A id \in SessionIds : id \in DOMAIN history => ~stopDataId(id)
     ELSE /\ ret' = Bool(TRUE)
          /\ \A id \in SessionIds :
               (emitted'[Len(emitted')].args[1] = id /\ stopDataId(id))
               => /\ id \in DOMAIN history
                  /\ DOMAIN history' = DOMAIN history \ {id}
                  /\ selectedHistory' = IF selectedHistory = id THEN Null ELSE selectedHistory
                  /\ \A sid \in DOMAIN history' : history'[sid] = history[sid]
    ]_vars

\* the selected session s1 was stopped: the selection is null, s2 is as it was
C13_Witness ==
  /\ lastCall = "stopDataId"
  /\ ret = Bool(TRUE)
  /\ emitted = <<Ev("selectDataId", <<Null>>), Ev("stopDataId", <<Str("s1")>>)>>
  /\ selectedHistory = Null
  /\ DOMAIN history = {Str("s2")}
  /\ Len(history[Str("s2")]["data"]) = 1

\* C14: selectDataId(id) with a non-null id that names no session returns false,
\* leaves the selection as it was and emits no event; with the id of a session it
\* makes that id the selection, with null it clears the selection, and it
\* returns true in both cases.
C14_SelectDataId ==
  [][lastCall' = "selectDataId" =>
     /\ history' = history
     /\ IF ret' = Bool(FALSE)
        THEN /\ selectedHistory' = selectedHistory
             /\ emitted' = <<>>
             /\ \A id \in SessionIds \cup {Null} :
                  (id = Null \/ id \in DOMAIN history) => ~selectDataId(id)
        ELSE /\ ret' = Bool(TRUE)
             /\ \A id \in SessionIds \cup {Null} :
                  (emitted' = <<Ev("selectDataId", <<id>>)>> /\ selectDataId(id))
                  => /\ id = Null \/ id \in DOMAIN history
                     /\ selectedHistory' = id
    ]_vars

\* s2 was selected, and selecting s1, which is no session, was refused
C14_Witness ==
  /\ lastCall = "selectDataId"
  /\ ret = Bool(FALSE)
  /\ emitted = <<>>
  /\ selectedHistory = Str("s2")
  /\ DOMAIN history = {Str("s2")}


(* C15: every successful addData, replaceIndex, deleteIndex, startDataId,   *)
(* stopDataId and selectDataId call delivers exactly one event of its own   *)
(* name to the public subscribers, and its listeners read the store the     *)
(* call leaves; a call that returns false or throws delivers no event.      *)
HistoryOps ==
  {"addData", "replaceIndex", "deleteIndex", "startDataId", "stopDataId", "selectDataId"}

OwnEvents(evs, op) == {k \in 1..Len(evs) : evs[k].event = op}

C15_OneEventAfterChange ==
  [][lastCall' \in HistoryOps =>
       IF ret' = Bool(FALSE) \/ ret'.type = "throw"
       THEN emitted' = <<>>
       ELSE /\ Cardinality(OwnEvents(emitted', lastCall')) = 1
            /\ observed' = [history |-> history', selectedHistory |-> selectedHistory']
    ]_vars

\* a stop of the selected session has deselected it and then announced itself
C15_Witness ==
  /\ lastCall = "stopDataId"
  /\ ret = Bool(TRUE)
  /\ emitted = <<Ev("selectDataId", <<Null>>), Ev("stopDataId", <<Str("s1")>>)>>
  /\ observed # Undefined
  /\ Str("s1") \notin DOMAIN observed.history
  /\ observed.selectedHistory = Null


(* C16: each _insertNewModel call that adds a model to the catalog          *)
(* notifies the subscribers with the inserted descriptor. The handler has   *)
(* no emit at all, so the statement fails on the first insertion.           *)
C16_InsertionNotifies ==
  (lastCall = "_insertNewModel" /\ ret.type = "object")
    => \E k \in 1..Len(emitted) : ret \in {emitted[k].args[a] : a \in 1..Len(emitted[k].args)}


(* C17: a scalar setter called with a value of the wrong semantic type (a   *)
(* numeric setter with a non-number, NaN or an infinity, the flag setter    *)
(* with a non-boolean, a text setter with a non-string) raises an error,    *)
(* leaves the session as it was and emits no event.                         *)
RejectedCall ==
  /\ ret'.type = "throw"
  /\ history' = history
  /\ emitted' = <<>>

NumberSetters ==
  {"setMaxOutputTokens", "setTemperature", "setTopP", "setTopK", "setPresencePenalty",
   "setFrequencyPenalty"}

C17_SettersRejectWrongType ==
  [][/\ lastCall' \in NumberSetters =>
          \A value \in NumberArgs, id \in OneIdArgs :
            ( /\ ~isFiniteNumber(value)
              /\ \/ setMaxOutputTokens(value, id)
                 \/ setTemperature(value, id)
                 \/ setTopP(value, id)
                 \/ setTopK(value, id)
                 \/ setPresencePenalty(value, id)
                 \/ setFrequencyPenalty(value, id) ) => RejectedCall
     /\ lastCall' = "setEnabledEnchancedCivicAnswers" =>
          \A value \in FlagArgs, id \in OneIdArgs :
            (value.type # "boolean" /\ setEnabledEnchancedCivicAnswers(value, id)) => RejectedCall
     /\ lastCall' = "setModel" =>
          \A data \in TextArgs, id \in OneIdArgs :
            (data.type # "string" /\ setModel(data, id)) => RejectedCall
     /\ lastCall' \in {"setPrompt", "setFirstDialogue", "setSystemInstruction"} =>
          \A data \in TextArgs, tokenAmount \in TokenAmounts, id \in OneIdArgs :
            ( /\ data.type # "string"
              /\ \/ setPrompt(data, tokenAmount, id)
                 \/ setFirstDialogue(data, tokenAmount, id)
                 \/ setSystemInstruction(data, tokenAmount, id) ) => RejectedCall
    ]_vars


(* C18: every scalar getter returns null when the session is missing, when  *)
(* the field was never set, or when the stored value has another type.      *)
NoValueOf(where, type, id) ==
  ~SessionExists(id) \/ typeOf(Get(getData(id), where)) # Str(type)

C18_GettersReturnNull ==
  \A id \in OneIdArgs :
    /\ NoValueOf("model", "string", id) => getModel(id) = Null
    /\ NoValueOf("maxOutputTokens", "number", id) => getMaxOutputTokens(id) = Null
    /\ NoValueOf("temperature", "number", id) => getTemperature(id) = Null
    /\ NoValueOf("topP", "number", id) => getTopP(id) = Null
    /\ NoValueOf("topK", "number", id) => getTopK(id) = Null
    /\ NoValueOf("presencePenalty", "number", id) => getPresencePenalty(id) = Null
    /\ NoValueOf("frequencyPenalty", "number", id) => getFrequencyPenalty(id) = Null
    /\ NoValueOf("enableEnhancedCivicAnswers", "boolean", id)
         => isEnabledEnchancedCivicAnswers(id) = Null
    /\ NoValueOf("prompt", "string", id) => getPrompt(id) = Null
    /\ NoValueOf("firstDialogue", "string", id) => getFirstDialogue(id) = Null
    /\ NoValueOf("systemInstruction", "string", id) => getSystemInstruction(id) = Null


(* C19: a generation-parameter setter or setModel called with a valid value *)
(* for a session that does not exist raises an error and emits no event.    *)
C19_SetterMissingSession ==
  [][/\ lastCall' \in NumberSetters =>
          \A id \in OneIdArgs :
            ( /\ ~SessionExists(id)
              /\ \/ setMaxOutputTokens(Num(1), id)
                 \/ setTemperature(Num(1), id)
                 \/ setTopP(Num(1), id)
                 \/ setTopK(Num(1), id)
                 \/ setPresencePenalty(Num(1), id)
                 \/ setFrequencyPenalty(Num(1), id) )
            => (ret'.type = "throw" /\ emitted' = <<>>)
     /\ lastCall' = "setEnabledEnchancedCivicAnswers" =>
          \A id \in OneIdArgs :
            (~SessionExists(id) /\ setEnabledEnchancedCivicAnswers(Bool(TRUE), id))
            => (ret'.type = "throw" /\ emitted' = <<>>)
     /\ lastCall' = "setModel" =>
          \A id \in OneIdArgs :
            (~SessionExists(id) /\ setModel(Str("a"), id))
            => (ret'.type = "throw" /\ emitted' = <<>>)
    ]_vars


(* C20: the internal event channel is handed out at most once: the first    *)
(* getSysEvents call returns it, every later call in any state throws and   *)
(* does not return it, and no operation makes the channel available again.  *)
C20_SysEventsOnce ==
  [][/\ sysEventsUsed => sysEventsUsed'
     /\ lastCall' = "getSysEvents" =>
          IF sysEventsUsed
          THEN ret'.type = "throw" /\ ret' # SysEvents
          ELSE ret' = SysEvents /\ sysEventsUsed'
    ]_vars

\* a second call, on an instance that holds a session, has been refused
C20_Witness ==
  /\ lastCall = "getSysEvents"
  /\ ret.type = "throw"
  /\ sysEventsUsed
  /\ OneSession \in DOMAIN history


----------------------------------------------------------------------------
(* Claims on the end of a stream *)

\* the operation has failed: the fetch was rejected, the response was not ok
\* or had no body, or a read of the stream was rejected
FailedStream(o) ==
  /\ "status" \in DOMAIN o
  /\ o.status = "rejected"
  /\ o.reason \in {"fetchRejected", "notOk", "noBody", "read"}

DoneNotifications(list) == {k \in 1..Len(list) : list[k].done = Bool(TRUE)}

(* C21: a streaming operation whose fetch is rejected, whose response is    *)
(* not ok or has no body, or whose reader fails at some chunk rejects with  *)
(* that failure: it carries no result, no done = true notification was      *)
(* emitted, and nothing but a new request replaces the rejection.           *)
C21_FailureRejects ==
  [][/\ (pc = "reading" /\ pc' = "settled" /\ notified' = notified)
          => FailedStream(outcome')
     /\ FailedStream(outcome') =>
          /\ pc' = "settled"
          /\ "value" \notin DOMAIN outcome'
          /\ DoneNotifications(notified') = {}
     /\ (FailedStream(outcome) /\ outcome' # outcome) =>
          /\ pc \in {"idle", "settled"}
          /\ notified' = <<>>
          /\ received' = <<>>
    ]_vars

\* a read has failed after fragments were accumulated and notified
C21_Witness ==
  /\ FailedStream(outcome)
  /\ outcome.reason = "read"
  /\ Len(notified) > 1
  /\ streamCache # <<>>


\* the reader has reported the end of the stream
EndedNormally ==
  /\ pc = "settled"
  /\ "status" \in DOMAIN outcome
  /\ ~FailedStream(outcome)

(* C22: in a stream that ends normally exactly one notification with        *)
(* done = true and no content is emitted; it is the last notification, the  *)
(* promise settles after it, and none is emitted before the stream ends.    *)
C22_OneDoneNotification ==
  /\ pc = "reading" => DoneNotifications(notified) = {}
  /\ EndedNormally =>
       /\ DoneNotifications(notified) = {Len(notified)}
       /\ notified[Len(notified)] = [done |-> Bool(TRUE)]
       /\ settledAt = Len(notified)

\* a stream of three fragments has ended and resolved
C22_Witness ==
  /\ EndedNormally
  /\ outcome.status = "resolved"
  /\ Len(notified) = 4


----------------------------------------------------------------------------
(* Claims on hashes *)

(* C23: in every reachable state of a session the hash stored at each       *)
(* message position is the hash of the message stored there, and every      *)
(* scalar hash entry (prompt, custom values) is the hash of the value the   *)
(* session holds under that name.                                           *)
MessageHashesMatch(session) ==
  /\ session["hash"]["data"].type = "array"
  /\ Len(session["hash"]["data"].val) = Len(session["data"])
  /\ \A k \in 1..Len(session["data"]) :
       session["hash"]["data"].val[k] = objHash(session["data"][k])

ScalarHashesMatch(session) ==
  \A name \in DOMAIN session["hash"] \ {"data"} :
    session["hash"][name] = objHash(Get(session, name))

C23_HashesMatch ==
  \A sid \in DOMAIN history :
    MessageHashesMatch(history[sid]) /\ ScalarHashesMatch(history[sid])


----------------------------------------------------------------------------
(* Claims on the order of the catalog *)

Ascending(list) ==
  \A i, j \in 1..Len(list) : i < j => list[i]["index"].val <= list[j]["index"].val

RemoveAt(list, k) == SubSeq(list, 1, k - 1) \o SubSeq(list, k + 1, Len(list))

\* new is old with one more entry, which stands behind every entry of the same
\* or a smaller index and ahead of every entry of a greater one
InsertedBehindTies(old, new) ==
  /\ Len(new) = Len(old) + 1
  /\ \E k \in 1..Len(new) :
       /\ RemoveAt(new, k) = old
       /\ \A j \in 1..(k - 1) : new[j]["index"].val <= new[k]["index"].val
       /\ \A j \in (k + 1)..Len(new) : new[j]["index"].val > new[k]["index"].val

(* C24: after any sequence of _insertNewModel calls the top-level catalog   *)
(* and every category's member list are in ascending order of index, and    *)
(* an inserted entry stands behind the entries of equal index that were     *)
(* there before it, whose order is kept.                                    *)
C24_CatalogSorted ==
  [][/\ Ascending(models')
     /\ \A k \in 1..Len(models') :
          "data" \in DOMAIN models'[k] => Ascending(models'[k]["data"])
     /\ models' # models =>
          \/ InsertedBehindTies(models, models')
          \/ /\ Len(models') = Len(models)
             /\ \E k \in 1..Len(models) :
                  /\ "data" \in DOMAIN models[k]
                  /\ InsertedBehindTies(models[k]["data"], models'[k]["data"])
                  /\ models' = [models EXCEPT ![k]["data"] = models'[k]["data"]]
    ]_vars

\* the top level holds two entries of equal index and a category two members
C24_Witness ==
  /\ \E i, j \in 1..Len(models) :
       /\ i < j
       /\ models[i]["index"] = models[j]["index"]
       /\ "data" \in DOMAIN models[i]
       /\ "data" \notin DOMAIN models[j]
  /\ \E k \in 1..Len(models) : "data" \in DOMAIN models[k] /\ Len(models[k]["data"]) = 2


----------------------------------------------------------------------------
(* Claims on single-session mode *)

\* the only session an instance in single-session mode holds and selects
OnlyMain ==
  /\ isSingle
  /\ DOMAIN history \subseteq {Str("main")}
  /\ selectedHistory = Str("main")
  /\ \A id \in SingleIdArgs : getId(id) = Str("main")

(* C25: in single-session mode the session 'main' exists and is selected    *)
(* from construction on and is never created again; startDataId,            *)
(* stopDataId and selectDataId are unavailable; every operation acts on     *)
(* 'main' whatever id it is given, and no other session ever exists.        *)
C25_SingleSession ==
  /\ []OnlyMain
  /\ [][/\ Str("main") \in DOMAIN history' => Str("main") \in DOMAIN history
        /\ lastCall' \in {"startDataId", "stopDataId", "selectDataId"} =>
             /\ ret'.type = "throw"
             /\ history' = history
             /\ emitted' = <<>>
        /\ lastCall' = "addData" =>
             \A data \in Messages, id \in SingleIdArgs :
               addData(data, Undefined, id) => addData(data, Undefined, Str("main"))
        /\ lastCall' = "deleteIndex" =>
             \A index \in IndexArgs, id \in SingleIdArgs :
               deleteIndex(index, id) => deleteIndex(index, Str("main"))
        /\ lastCall' = "setPrompt" =>
             \A promptData \in PromptArgs, id \in SingleIdArgs :
               setPrompt(promptData, Undefined, id) => setPrompt(promptData, Undefined, Str("main"))
        /\ lastCall' = "setTemperature" =>
             \A id \in SingleIdArgs :
               setTemperature(Num(1), id) => setTemperature(Num(1), Str("main"))
       ]_vars

\* a message was added to 'main' by a call that named another session
C25_Witness ==
  /\ isSingle
  /\ lastCall = "addData"
  /\ ret = Num(0)
  /\ Len(history[Str("main")]["data"]) = 1
  /\ emitted[1].args[5] = Str("main")


----------------------------------------------------------------------------
(* Claims on built messages *)

\* the parts of the item buildContents was given
GivenParts(item) ==
  IF Get(item, "parts").type = "array" THEN item["parts"].val
  ELSE IF Truthy(Get(item, "content")) THEN <<item["content"].val>>
  ELSE <<>>

\* an inlineData that carries a string mime_type and a string data
WellFormedInlineData(v) ==
  /\ v.type = "object"
  /\ {"mime_type", "data"} \subseteq DOMAIN v.val
  /\ v.val["mime_type"].type = "string"
  /\ v.val["data"].type = "string"

----------------------------------------------------------------------------
(* Claims on lookups by message identifier *)

(* C27: for an existing session named by its id, selected or not,           *)
(* getMsgById, getMsgTokensById and getMsgHashById return the message, the  *)
(* token record and the hash stored in that session at the position of the  *)
(* identifier, and null when the session does not hold the identifier.      *)
C27_LookupById ==
  \A sid \in DOMAIN history, n \in 0..MaxAdds :
    LET session == history[sid]
        k == IndexOf(session["ids"], Num(n))
    IN IF k > -1
       THEN /\ getMsgById(Num(n), sid) = session["data"][k + 1]
            /\ getMsgTokensById(Num(n), sid) = session["tokens"]["data"].val[k + 1]
            /\ getMsgHashById(Num(n), sid) = session["hash"]["data"].val[k + 1]
       ELSE /\ getMsgById(Num(n), sid) = Null
            /\ getMsgTokensById(Num(n), sid) = Null
            /\ getMsgHashById(Num(n), sid) = Null


----------------------------------------------------------------------------
(* Sessions worked on side by side *)

\* what each operation makes of the session it is given, nothing else read
AloneAdd(session, data) == AddedSession(session, data, Obj([count |-> Null]))

AloneReplace(session, index, data) ==
  IF Truthy(At(session["data"], index))
  THEN ReplacedSession(session, index, data, Undefined)
  ELSE session

AloneDelete(session, index) ==
  IF Truthy(At(session["data"], index)) THEN DeletedSession(session, index) ELSE session

AloneSetTemperature(session, value) == Put(session, "temperature", value)

AloneSetCustomValue(session, key, value) ==
  IF CustomValueCheck(session, key, value) = "ok"
  THEN CustomValueSet(session, key, value, Undefined)
  ELSE WithCustomList(session)

\* the store after a call on session id that leaves the session as `session`
\* and every other session, and the selection, as they were
OnlyOwnSession(id, session) ==
  /\ selectedHistory' = selectedHistory
  /\ DOMAIN history' = DOMAIN history
  /\ \A other \in DOMAIN history : other # id => history'[other] = history[other]
  /\ id \in DOMAIN history => history'[id] = session

\* C28: a call that appends to, replaces in, deletes from or sets a value on
\* the session it names by id leaves that session as the operation alone makes
\* it from that session's own state, and leaves every other session and the
\* selection untouched, whichever calls on other sessions came in between
C28_SessionsDoNotInterfere ==
  [][ /\ lastCall' = "addData" =>
           \A id \in SessionIds :
             addData(Msg("hi"), Undefined, id)
               => OnlyOwnSession(id, AloneAdd(history[id], Msg("hi")))
      /\ lastCall' = "replaceIndex" =>
           \A id \in SessionIds, index \in FirstIndexes :
             replaceIndex(index, Msg("yo"), Undefined, id)
               => OnlyOwnSession(id, AloneReplace(history[id], index, Msg("yo")))
      /\ lastCall' = "deleteIndex" =>
           \A id \in SessionIds, index \in IndexArgs :
             deleteIndex(index, id)
               => OnlyOwnSession(id, AloneDelete(history[id], index))
      /\ lastCall' = "setTemperature" =>
           \A id \in SessionIds :
             setTemperature(Num(1), id)
               => OnlyOwnSession(id, AloneSetTemperature(history[id], Num(1)))
      /\ lastCall' = "setCustomValue" =>
           \A id \in SessionIds :
             setCustomValue(Str("mood"), Str("a"), Undefined, id)
               => OnlyOwnSession(id, AloneSetCustomValue(history[id], "mood", Str("a")))
    ]_vars

\* the unselected session was appended to and given a value by id while the
\* selected one holds different content
C28_Witness ==
  /\ DOMAIN history = SessionIds
  /\ selectedHistory = Str("s1")
  /\ history[Str("s2")]["data"] = <<Msg("hi")>>
  /\ Get(history[Str("s2")], "temperature") = Num(1)
  /\ history[Str("s1")]["data"] = <<Msg("yo")>>
  /\ Get(history[Str("s1")], "temperature") = Undefined
  /\ lastCall = "setCustomValue"
  /\ Get(history[Str("s1")], "mood") = Str("a")
  /\ Get(history[Str("s2")], "mood") = Undefined


----------------------------------------------------------------------------
(* Erasing a custom value *)

\* the descriptors of a list other than the one of key, in their order
OtherDescriptors(list, key) == SelectSeq(list, LAMBDA d : d.name # key)

\* what the claim says of an eraseCustomValue(name, id) step on a registered name
ErasedAsResetThenRemoved(name, id) ==
  LET sid == getId(id)
      reset == CustomValueReset(history[sid], name.val)
  IN /\ ret' = Undefined
     /\ emitted' = <<Ev("set" \o capitalizeFirstLetter(name.val), <<Null, sid>>)>>
     /\ getCustomValue(name.val, sid)' = Null
     /\ name.val \notin DOMAIN history'[sid]["tokens"]
     /\ name.val \notin DOMAIN history'[sid]["hash"]
     /\ Descriptor(history'[sid], name.val) = Undefined
     /\ history'[sid]["customList"] = OtherDescriptors(history[sid]["customList"], name.val)
     /\ history'[sid] = [reset EXCEPT !["customList"] = OtherDescriptors(@, name.val)]

\* C29: eraseCustomValue(name) on a registered name does what resetCustomValue(name)
\* does and then removes name's descriptor: getCustomValue(name) is null, the
\* token and hash entries of name are absent, customList holds no descriptor of
\* name and the other descriptors keep their order; on an unregistered name the
\* call throws and the store is as it was
C29_EraseResetsAndRemoves ==
  [][lastCall' = "eraseCustomValue" =>
       \A name \in FreeNames, id \in OneIdArgs :
         eraseCustomValue(name, id)
           => IF CanReset(name, id)
              THEN ErasedAsResetThenRemoved(name, id)
              ELSE /\ ret'.type = "throw"
                   /\ emitted' = <<>>
                   /\ history' = history
                   /\ selectedHistory' = selectedHistory
    ]_vars


----------------------------------------------------------------------------
(* Custom values under bad names and in missing sessions *)

\* a name that is no string, the empty string or the reserved name
BadName(name) == name.type # "string" \/ name = Str("") \/ name = Str("customList")

\* the id names no session, or there is no id and nothing is selected
MissingSession(id) ==
  LET target == IF id = Undefined THEN selectedHistory ELSE id
  IN target \notin DOMAIN history

\* the call threw, no listener was told and the store is as it was
ThrewAndChangedNothing ==
  /\ ret'.type = "throw"
  /\ emitted' = <<>>
  /\ sysEmitted' = <<>>
  /\ history' = history
  /\ selectedHistory' = selectedHistory

\* C30: setCustomValue and resetCustomValue given a name that is no string, is
\* empty or is 'customList', or aimed at a session that does not exist, throw,
\* change no session and emit no event
C30_BadNameOrSessionRefused ==
  [][ /\ lastCall' = "setCustomValue" =>
           \A name \in NameArgs, value \in {Null, Str("a")}, tokenAmount \in TokenAmounts,
              id \in TargetArgs :
             ( /\ BadName(name) \/ MissingSession(id)
               /\ setCustomValue(name, value, tokenAmount, id) )
             => ThrewAndChangedNothing
      /\ lastCall' = "resetCustomValue" =>
           \A name \in NameArgs, id \in TargetArgs :
             ( /\ BadName(name) \/ MissingSession(id)
               /\ resetCustomValue(name, id) )
             => ThrewAndChangedNothing
    ]_vars

\* a setCustomValue was refused for its name or its session while the session
\* of the specification holds a custom value with its tokens
C30_Witness ==
  /\ lastCall = "setCustomValue"
  /\ ret = Error("Invalid custom value!")
  /\ emitted = <<>>
  /\ OneSession \in DOMAIN history
  /\ selectedHistory = OneSession
  /\ Get(history[OneSession], "mood") = Str("a")
  /\ Get(history[OneSession]["tokens"], "mood") = Num(5)


----------------------------------------------------------------------------
(* Custom values under the name of a field *)

\* C31: setCustomValue with a value other than null under a name that has no
\* descriptor but is the name of a field the session holds throws, registers
\* no descriptor and leaves the field, the hash map and the token map as they
\* were
C31_FieldNameRefused ==
  [][lastCall' = "setCustomValue" =>
       \A name \in FieldNames, value \in GivenValues :
         ( /\ OneSession \in DOMAIN history
           /\ Descriptor(history[OneSession], name.val) = Undefined
           /\ name.val \in DOMAIN history[OneSession]
           /\ setCustomValue(name, value, Num(5), OneSession) )
         => LET before == history[OneSession]
                after == history'[OneSession]
            IN /\ ret'.type = "throw"
               /\ emitted' = <<>>
               /\ Descriptor(after, name.val) = Undefined
               /\ getCustomValueList(OneSession)' = getCustomValueList(OneSession)
               /\ after[name.val] = before[name.val]
               /\ after["hash"] = before["hash"]
               /\ after["tokens"] = before["tokens"]
    ]_vars

\* a value was refused for its name while the session holds a temperature set
\* by its setter and a custom value registered under a free name
C31_Witness ==
  /\ lastCall = "setCustomValue"
  /\ ret = Error("This value name is already being used!")
  /\ OneSession \in DOMAIN history
  /\ Get(history[OneSession], "temperature") = Num(1)
  /\ Descriptor(history[OneSession], "temperature") = Undefined
  /\ Descriptor(history[OneSession], "mood") = [name |-> "mood", type |-> "string"]


----------------------------------------------------------------------------
(* Custom values and the message history *)

\* the message history of a session: the four parallel sequences and the
\* identifier the next addData will give
HistoryPart(session) ==
  <<session["data"], session["ids"], session["tokens"]["data"], session["hash"]["data"],
    NewId(session)>>

\* C32: no setCustomValue, resetCustomValue or eraseCustomValue call, whatever
\* its name, value and token amount, changes a session's messages, identifiers,
\* per-message token records, per-message hashes or next identifier
C32_CustomValuesKeepHistory ==
  [][lastCall' \in {"setCustomValue", "resetCustomValue", "eraseCustomValue"} =>
       \A sid \in DOMAIN history :
         /\ sid \in DOMAIN history'
         /\ HistoryPart(history'[sid]) = HistoryPart(history[sid])
    ]_vars


----------------------------------------------------------------------------
(* A name registered again after its erasure *)

\* what eraseCustomValue leaves of a name: no descriptor, the field null
Erased(session, key) ==
  /\ Descriptor(session, key) = Undefined
  /\ key \in DOMAIN session
  /\ session[key] = Null

\* C33: once eraseCustomValue(name) has removed the descriptor, a later
\* setCustomValue(name, v) with a value other than null succeeds and registers
\* name anew with the type of v
C33_ErasedNameRegistersAnew ==
  [][lastCall' = "setCustomValue" =>
       \A name \in FreeNames, id \in OneIdArgs :
         ( /\ SessionExists(id)
           /\ Erased(history[getId(id)], name.val)
           /\ setCustomValue(name, Str("a"), Num(5), id) )
         => /\ ret' = Undefined
            /\ Descriptor(history'[getId(id)], name.val) = [name |-> name.val, type |-> "string"]
            /\ history'[getId(id)][name.val] = Str("a")
    ]_vars


----------------------------------------------------------------------------
(* The selection and the sessions that exist *)

\* C34: in every reachable state, after any sequence of startDataId,
\* stopDataId, selectDataId and destroy calls, the selection is null or the
\* id of a session that exists
C34_SelectionExists ==
  selectedHistory = Null \/ selectedHistory \in DOMAIN history


----------------------------------------------------------------------------
(* The event of a deletion *)

\* C35: the 'deleteIndex' event of a successful deleteIndex(index, id) carries
\* the index, the identifier the deleted entry had in the targeted session and
\* the id of that session, whether or not that session is the selected one
C35_DeleteEventNamesEntry ==
  [][(lastCall' = "deleteIndex" /\ ret' = Bool(TRUE)) =>
       /\ Len(emitted') = 1
       /\ emitted'[1].event = "deleteIndex"
       /\ LET index == emitted'[1].args[1]
              sid == emitted'[1].args[3]
          IN /\ sid \in DOMAIN history
             /\ Len(history'[sid]["ids"]) = Len(history[sid]["ids"]) - 1
             /\ emitted'[1].args[2] = At(history[sid]["ids"], index)
    ]_vars


----------------------------------------------------------------------------
(* Positions and identifiers *)

\* an identifier no addData of the specifications gives
AbsentId == Num(99)

\* C36: in every reachable state of a session, for every position i that
\* exists getIndexOfId(getIdByIndex(i, id), id) = i, for every identifier m the
\* session holds getIdByIndex(getIndexOfId(m, id), id) = m, and an absent
\* position or identifier gives -1
C36_PositionRoundTrip ==
  \A sid \in DOMAIN history :
    LET ids == history[sid]["ids"]
    IN /\ \A i \in 0..(Len(ids) - 1) : getIndexOfId(getIdByIndex(i, sid), sid) = i
       /\ \A k \in 1..Len(ids) : getIdByIndex(getIndexOfId(ids[k], sid), sid) = ids[k]
       /\ getIdByIndex(Len(ids), sid) = Num(-1)
       /\ getIdByIndex(-1, sid) = Num(-1)
       /\ getIndexOfId(AbsentId, sid) = -1


----------------------------------------------------------------------------
(* The descriptors of a session *)

\* C37: after any sequence of setCustomValue, resetCustomValue and
\* eraseCustomValue calls on a session, customList holds at most one
\* descriptor per name, and the value stored under a descriptor's name is
\* absent, null or of the recorded type
C37_DescriptorsWellFormed ==
  \A sid \in DOMAIN history :
    LET session == history[sid]
        list == WithCustomList(session)["customList"]
    IN /\ \A i, j \in 1..Len(list) : i < j => list[i].name # list[j].name
       /\ \A k \in 1..Len(list) :
            \/ Get(session, list[k].name) \in {Undefined, Null}
            \/ objType(session[list[k].name]) = list[k].type

\* a number is stored under a name whose one descriptor records a number,
\* with its token amount
C37_Witness ==
  /\ lastCall = "setCustomValue"
  /\ ret = Undefined
  /\ OneSession \in DOMAIN history
  /\ getCustomValueList(OneSession) = <<[name |-> "mood", type |-> "number"]>>
  /\ Get(history[OneSession], "mood") = Num(1)
  /\ Get(history[OneSession]["tokens"], "mood") = Num(5)


----------------------------------------------------------------------------
(* Generations that complete side by side *)

\* C38: when two generations are in flight for one session and each calls
\* addData as it completes, under every interleaving of the completions the
\* two calls get distinct identifiers, the one that completes later gets the
\* larger, and the four parallel sequences keep one length
C38_CompletionsGetDistinctIds ==
  [][\A op \in Ops :
       (flights[op].got = Undefined /\ flights'[op].got # Undefined /\ OneSession \in DOMAIN history)
       => /\ flights'[op].got.type = "number"
          /\ \A other \in Ops \ {op} :
               flights[other].got # Undefined
               => /\ flights[other].got.type = "number"
                  /\ flights'[op].got.val > flights[other].got.val
          /\ \A k \in 1..4 :
               Len(Messages4(history'[OneSession])[k]) = Len(history[OneSession]["data"]) + 1
    ]_vars

\* both generations appended; the one named b completed first and holds 0,
\* the other holds 1
C38_Witness ==
  /\ flights["a"].got = Num(1)
  /\ flights["b"].got = Num(0)
  /\ flights["a"].received # <<>>
  /\ OneSession \in DOMAIN history
  /\ history[OneSession]["data"] = <<Msg("b"), Msg("a")>>
  /\ history[OneSession]["ids"] = <<Num(0), Num(1)>>


----------------------------------------------------------------------------
(* The two event channels *)

\* C39: an event injected through the public emit reaches the public
\* subscribers only, never the internal channel; every event the store emits
\* for a call reaches the public subscribers, and the internal channel exactly
\* when getSysEvents was called before
C39_InternalChannelIsolated ==
  [][ /\ lastCall' = "emit" => (Len(emitted') = 1 /\ sysEmitted' = <<>>)
      /\ lastCall' # "emit" => sysEmitted' = (IF sysEventsUsed THEN emitted' ELSE <<>>)
    ]_vars

\* an event named addData was injected after getSysEvents was called and a
\* message was appended: the internal channel did not get it
C39_Witness ==
  /\ lastCall = "emit"
  /\ sysEventsUsed
  /\ emitted = <<Ev("addData", <<Num(7)>>)>>
  /\ sysEmitted = <<>>
  /\ OneSession \in DOMAIN history
  /\ Len(history[OneSession]["data"]) = 1


----------------------------------------------------------------------------
(* Snapshots of requests that stream side by side *)

\* the notifications and the snapshots of a request hold the texts of the
\* fragments that request received, concatenated in arrival order, and no other
OwnFragmentsOnly(flight) ==
  LET fragments == FragmentsFrom(flight.received, 1)
      notes == SelectSeq(flight.notified, LAMBDA note : note["done"] = Bool(FALSE))
  IN /\ Len(notes) = Len(fragments)
     /\ \A k \in 1..Len(notes) :
          \A pair \in TextPairs(buildContent(fragments[k].val, <<>>)) :
            notes[k]["contents"][pair[1]]["parts"][pair[2]]["text"]
              = Str(Concatenated(fragments, k, pair[1] - 1, pair[2] - 1))
     /\ flight.pc = "idle" => flight.streamCache = <<>>

\* the result a request resolved with holds the concatenated texts as strings:
\* no snapshot of the request is handed out with it
NoSnapshotReturned(flight) ==
  ("status" \in DOMAIN flight.outcome /\ flight.outcome.status = "resolved")
  => LET fragments == FragmentsFrom(flight.received, 1)
     IN \A pair \in TextPairs(buildContent(flight.streamResult, <<>>)) :
          flight.outcome.value.contents[pair[1]]["parts"][pair[2]]["text"]
            = Str(Concatenated(fragments, Len(fragments), pair[1] - 1, pair[2] - 1))

\* C40: when two streaming requests run side by side with their chunks
\* arriving in any interleaving, the cumulative texts each request notifies and
\* returns hold that request's own fragments only, its snapshots start empty,
\* and none of them can be observed once the request has resolved
C40_SnapshotsPrivate ==
  \A op \in Ops : OwnFragmentsOnly(flights[op]) /\ NoSnapshotReturned(flights[op])

====
